---- MODULE Spec2Model ----
(***************************************************************************)
(* A model of luster's bytecode dispatcher (src/src/vm.rs, run_vm) and of  *)
(* its lexical scanner (src/src/lexer.rs, Lexer::next).                    *)
(*                                                                         *)
(* The specifications share the module's variables:                        *)
(*   Spec     drives one Lua frame by repeated run_vm calls;               *)
(*   SpecOp   runs single opcodes from a range of register contents;       *)
(*   SpecFor  runs NumericForLoop on integers near the ends of i64;        *)
(*   SpecUp   runs programs that create, call and close over closures;     *)
(*   SpecOffset applies the Jump arm to extreme program counters;          *)
(*   SpecLex  drives one Lexer over a byte stream by repeated next calls   *)
(*            (SpecLexShort, SpecLexLong and SpecLexEsc over other         *)
(*            families of input).                                          *)
(***************************************************************************)
EXTENDS Integers, Sequences, FiniteSets, TLC

VARIABLES
    \* ---- the dispatcher ----
    opcodes,        \* current_function.0.proto.opcodes
    budget,         \* the instruction budget the driver passes to every call
    frame,          \* the Lua frame driven with `budget`
    whole,          \* the same frame driven with an unlimited budget
    ret,            \* what the last run_vm call on `frame` returned
    before,         \* `frame` as it was when the last call started
    \* ---- the lexer ----
    stream,         \* the bytes of the source, all of them
    pos,            \* number of bytes of the stream consumed (0-origin offset)
    line_number,    \* LexerState::line_number
    output_buffer,  \* Lexer::output_buffer
    result,         \* what the last Lexer::next call returned
    tok_start,      \* offset of the first byte lex looked at in the last call
    call_pos        \* pos when the last call of next started

vmvars  == <<opcodes, budget, frame, whole, ret, before>>
lexvars == <<stream, pos, line_number, output_buffer, result, tok_start, call_pos>>
vars    == <<opcodes, budget, frame, whole, ret, before,
             stream, pos, line_number, output_buffer, result, tok_start, call_pos>>

(***************************************************************************)
(* Bounds of the model.                                                    *)
(***************************************************************************)
MaxProgLen == 3      \* opcodes before the closing Return
MaxBudget  == 3      \* largest per-call budget of the slicing driver

(***************************************************************************)
(* Value domain (crate::Value).  One record shape for every variant:       *)
(* t is the tag, n the integer payload, s the byte-string payload.         *)
(***************************************************************************)
Nil        == [t |-> "nil",  n |-> 0, s |-> <<>>]
Boolean(b) == [t |-> "bool", n |-> IF b THEN 1 ELSE 0, s |-> <<>>]
Integer(i) == [t |-> "int",  n |-> i, s |-> <<>>]
String(b)  == [t |-> "str",  n |-> 0, s |-> b]
Function(i) == [t |-> "func", n |-> i, s |-> <<>>]
Number(x)  == [t |-> "num",  n |-> x, s |-> <<>>]   \* a float of integral value x
Table(i)   == [t |-> "table", n |-> i, s |-> <<>>]  \* identity i in `tables`
\* Function::Closure: identity i in the frame's `closures`.
FunctionClosure(i) == [t |-> "closure", n |-> i, s |-> <<>>]

\* Option results are records with a `some` flag.
Some(v) == [some |-> TRUE,  v |-> v]
None(v) == [some |-> FALSE, v |-> v]      \* v only fixes the payload's type

\* Value::to_bool: Nil and false are falsy, every other value is truthy.
to_bool(v) == ~(v.t = "nil" \/ (v.t = "bool" /\ v.n = 0))

\* proto.constants, already through Constant::to_value.
constants == <<Integer(7), String(<<"a">>), Integer(1)>>

\* The heap's tables: a dense array part and a hash part of <<key, value>>.
tables ==
    << [array |-> <<Integer(5), Integer(6)>>,
        map   |-> { <<String(<<"a">>), Function(1)>> }] >>

\* A float key of integral value is the integer key.
table_key(key) == IF key.t = "num" THEN Integer(key.n) ELSE key

\* Table::get on the contents T: an absent key reads as Nil.
get(T, key) ==
    LET k == table_key(key)
    IN  IF k.t = "int" /\ k.n >= 1 /\ k.n <= Len(T.array)
        THEN T.array[k.n]
        ELSE IF \E e \in T.map : e[1] = k
        THEN (CHOOSE e \in T.map : e[1] = k)[2]
        ELSE Nil

\* Table::set on the contents T: a Nil key fails; a Nil value removes the
\* key (the array part ends before a removed index).
set(T, key, value) ==
    LET k == table_key(key)
    IN  IF k.t = "nil" THEN [ok |-> FALSE, T |-> T]
        ELSE IF k.t = "int" /\ k.n >= 1 /\ k.n <= Len(T.array)
        THEN IF value.t # "nil"
             THEN [ok |-> TRUE, T |-> [T EXCEPT !.array[k.n] = value]]
             ELSE [ok |-> TRUE,
                   T  |-> [array |-> SubSeq(T.array, 1, k.n - 1),
                           map   |-> T.map \cup
                                     { <<Integer(j), T.array[j]>> :
                                         j \in (k.n + 1)..Len(T.array) }]]
        ELSE [ok |-> TRUE,
              T  |-> [T EXCEPT !.map =
                        { e \in @ : e[1] # k }
                        \cup (IF value.t = "nil" THEN {} ELSE {<<k, value>>})]]

\* Table::get on a table of the heap as it is before the program runs.
table_get(table, key) == get(tables[table.n], key)

\* Table::length: the border of the array part.
table_length(table) == Len(tables[table.n].array)

\* Registers of the frame's window (proto.max_registers).
NumRegs == 4

\* A budget no run of a modelled program can use up ("budget = infinity").
Unlimited == 2^30

\* VarCount: a constant count n >= 0, or "variable" (everything up to top).
Variable == -1

(***************************************************************************)
(* The frame (thread::LuaFrame) as run_vm sees it.                         *)
(*   pc, stack_frame   the fields of constant_registers()                  *)
(*   variable          TRUE when constant_registers() returns None         *)
(*   top               end of the variable part when variable              *)
(*   varargs           the frame's variable-argument slice                 *)
(*   status            running | returned | tailcalled | error | panic     *)
(*   proto             the running function: 0 for the function whose      *)
(*                     opcodes the driver holds, i for prototypes[i]       *)
(*   upvalues          current_function.0.upvalues, as identities of cells *)
(*   cells             the thread's upvalue cells: open on register `at`   *)
(*                     of the frame at depth `depth`, or closed on `value` *)
(*   closures          the closures allocated so far                       *)
(*   callers           the frames below the running one                    *)
(*   heap              the contents of the heap's tables                   *)
(*   overflow_checks   the build the frame runs in: TRUE when integer       *)
(*                     overflow panics (debug), FALSE when it wraps         *)
(*   trace             history: the pc of every opcode executed so far     *)
(***************************************************************************)
NewFrame(r0) ==
    [pc |-> 0,
     stack_frame |-> [i \in 1..NumRegs |->
                        IF i = 1 THEN r0 ELSE IF i = 2 THEN Integer(2) ELSE Nil],
     variable |-> FALSE,
     top |-> NumRegs,
     varargs |-> <<String(<<"b">>)>>,
     status |-> "running",
     err |-> "none",
     returned |-> <<>>,
     proto |-> 0,
     upvalues |-> <<1>>,
     cells |-> <<[open |-> FALSE, depth |-> 0, at |-> 0, value |-> Table(1)]>>,
     closures |-> <<>>,
     callers |-> <<>>,
     heap |-> tables,
     overflow_checks |-> FALSE,
     trace |-> <<>>]

\* registers.stack_frame[i]: the code's indices are 0-origin.
Reg(f, i) == f.stack_frame[i + 1]
SetReg(f, i, v) == [f EXCEPT !.stack_frame[i + 1] = v]

\* The bounds checks of the indexing: register i is in the frame's window,
\* constant i in the pool, upvalue i among the closure's upvalues.
InWindow(f, i)   == i >= 0 /\ i < Len(f.stack_frame)
InPool(i)        == i >= 0 /\ i < Len(constants)
HasUpValue(f, i) == i >= 0 /\ i < Len(f.upvalues)

\* Outcome of one opcode: k is "ok", "err" (a `?` return) or "panic".
Ok(f)       == [k |-> "ok",    f |-> f, e |-> "none"]
Err(f, e)   == [k |-> "err",   f |-> f, e |-> e]
Panic(f)    == [k |-> "panic", f |-> f, e |-> "panic"]

\* `registers.stack_frame[i] = v` as the last step of an arm: the value is
\* there already, the store panics when i is outside the window.
Store(f, i, v) == IF InWindow(f, i) THEN Ok(SetReg(f, i, v)) ELSE Panic(f)

\* The operand a mode letter names, a register or a constant, and whether
\* fetching it stays inside its vector.
Fetchable(f, letter, i) == IF letter = "R" THEN InWindow(f, i) ELSE InPool(i)
Operand(f, letter, i) ==
    IF letter = "R" THEN f.stack_frame[i + 1] ELSE constants[i + 1]

(***************************************************************************)
(* add_offset                                                              *)
(***************************************************************************)
\* The cases in which one of add_offset's unwrap()s (or the negation of
\* i16::MIN) panics.
add_offset_panics(pc, offset) ==
    \/ offset = -32768
    \/ offset < 0 /\ pc < -offset

add_offset(pc, offset) ==
    IF offset > 0 THEN pc + offset
    ELSE IF offset < 0 THEN pc - (-offset)
    ELSE pc

(***************************************************************************)
(* Frame primitives of thread::LuaFrame, and String::concat.               *)
(***************************************************************************)
\* The values stack_frame[from .. from+n-1] as a sequence.
Slice(f, from, n) == [i \in 1..n |-> Reg(f, from + i - 1)]

\* Write n values at dest.., Nil-filling past the end of vals.
WriteRange(f, dest, vals, n) ==
    [f EXCEPT !.stack_frame =
        [i \in 1..NumRegs |->
            IF i - 1 >= dest /\ i - 1 < dest + n
            THEN (IF i - dest <= Len(vals) THEN vals[i - dest] ELSE Nil)
            ELSE @[i]]]

\* LoadNil: `for i in dest.0..dest.0 + count`.  The end of the range is a
\* sum of two u8: past 255 it panics in a build with overflow checks and
\* wraps in a build without them, where the range is then empty.  A range
\* that leaves the window writes the registers there are, then panics on
\* the index.
LoadNil(op, f) ==
    LET sum  == op.dest + op.count
        end  == sum % 256
        last == IF end > Len(f.stack_frame) THEN Len(f.stack_frame) ELSE end
        g    == WriteRange(f, op.dest, <<>>, last - op.dest)
    IN  IF sum > 255 /\ f.overflow_checks THEN Panic(f)
        ELSE IF end > op.dest /\ end > Len(f.stack_frame) THEN Panic(g)
        ELSE Ok(g)

\* The end of the argument or result range named by a VarCount.
Avail(f, from) == (IF f.variable THEN f.top ELSE NumRegs) - from
Count(f, from, c) == IF c = Variable THEN Avail(f, from) ELSE c

\* Deliver `vals` at dest as `returns` asks, leaving the frame fixed or variable.
Deliver(f, dest, vals, returns) ==
    IF returns = Variable
    THEN [WriteRange(f, dest, vals, Len(vals))
            EXCEPT !.variable = TRUE, !.top = dest + Len(vals)]
    ELSE [WriteRange(f, dest, vals, returns)
            EXCEPT !.variable = FALSE, !.top = NumRegs]

\* The depth of the running frame in the thread's frame stack.
Depth(f) == Len(f.callers)

\* The open cell on register reg of the running frame, if there is one.
open_cell_at(f, reg) ==
    { c \in 1..Len(f.cells) :
        f.cells[c].open /\ f.cells[c].depth = Depth(f) /\ f.cells[c].at = reg }

\* open_upvalue: the open cell on the register when there is one, a new
\* open cell otherwise.  The result is the frame and the cell.
open_upvalue(f, reg) ==
    IF open_cell_at(f, reg) # {}
    THEN [f |-> f, cell |-> CHOOSE c \in open_cell_at(f, reg) : TRUE]
    ELSE [f |-> [f EXCEPT !.cells =
                    Append(@, [open |-> TRUE, depth |-> Depth(f), at |-> reg,
                               value |-> Nil])],
          cell |-> Len(f.cells) + 1]

\* get_upvalue: an open cell reads the register it is open on, a closed
\* cell its own value.
get_upvalue(f, c) ==
    IF ~f.cells[c].open THEN f.cells[c].value
    ELSE IF f.cells[c].depth = Depth(f) THEN Reg(f, f.cells[c].at)
    ELSE f.callers[f.cells[c].depth + 1].stack_frame[f.cells[c].at + 1]

\* set_upvalue: an open cell writes the register it is open on.
set_upvalue(f, c, v) ==
    IF ~f.cells[c].open THEN [f EXCEPT !.cells[c].value = v]
    ELSE IF f.cells[c].depth = Depth(f) THEN SetReg(f, f.cells[c].at, v)
    ELSE [f EXCEPT !.callers[f.cells[c].depth + 1].stack_frame[f.cells[c].at + 1] = v]

\* close_upvalues: every cell open on a register >= r of the running frame
\* is closed on the value of its register.
close_upvalues(f, r) ==
    [f EXCEPT !.cells =
        [c \in 1..Len(f.cells) |->
            IF f.cells[c].open /\ f.cells[c].depth = Depth(f) /\ f.cells[c].at >= r
            THEN [f.cells[c] EXCEPT !.open = FALSE, !.value = Reg(f, f.cells[c].at)]
            ELSE f.cells[c]]]

\* A frame for closure k is pushed over the running one; its results will
\* go to the caller's register dest, as `returns` asks.
push_frame(f, k, args, dest, returns) ==
    [f EXCEPT !.callers = Append(@, [pc |-> f.pc, stack_frame |-> f.stack_frame,
                                     proto |-> f.proto, upvalues |-> f.upvalues,
                                     dest |-> dest, returns |-> returns]),
              !.pc = 0,
              !.stack_frame = [i \in 1..NumRegs |->
                                 IF i <= Len(args) THEN args[i] ELSE Nil],
              !.proto = f.closures[k].proto,
              !.upvalues = f.closures[k].upvalues,
              !.variable = FALSE,
              !.top = NumRegs]

\* The running frame is popped and `vals` delivered to its caller.
pop_frame(f, vals) ==
    LET c == f.callers[Len(f.callers)]
        g == [close_upvalues(f, 0)
                EXCEPT !.callers = SubSeq(@, 1, Len(@) - 1),
                       !.pc = c.pc,
                       !.stack_frame = c.stack_frame,
                       !.proto = c.proto,
                       !.upvalues = c.upvalues]
    IN  Deliver(g, c.dest, vals, c.returns)

\* A call: a host function hands its arguments back at once, a closure
\* gets a frame of its own, any other value is not callable.
invoke(f, callee, args, dest, returns) ==
    IF callee.t = "func" THEN Ok(Deliver(f, dest, args, returns))
    ELSE IF callee.t = "closure"
    THEN Ok(push_frame(f, callee.n, args, dest, returns))
    ELSE Err(f, "CallError")

call_function(f, func, args, returns) ==
    invoke(f, Reg(f, func), Slice(f, func + 1, Count(f, func + 1, args)),
           func, returns)

tail_call_function(f, func, args) ==
    LET callee == Reg(f, func)
        vals   == Slice(f, func + 1, Count(f, func + 1, args))
        g      == close_upvalues(f, 0)
    IN  IF callee.t = "func"
        THEN (IF f.callers = <<>>
              THEN Ok([g EXCEPT !.status = "tailcalled", !.returned = vals])
              ELSE Ok(pop_frame(f, vals)))
        ELSE IF callee.t = "closure"
        THEN Ok([g EXCEPT !.pc = 0,
                          !.stack_frame = [i \in 1..NumRegs |->
                                IF i <= Len(vals) THEN vals[i] ELSE Nil],
                          !.proto = f.closures[callee.n].proto,
                          !.upvalues = f.closures[callee.n].upvalues,
                          !.variable = FALSE,
                          !.top = NumRegs])
        ELSE Err(f, "CallError")

return_upper(f, start, count) ==
    LET vals == Slice(f, start, Count(f, start, count))
    IN  IF f.callers = <<>>
        THEN Ok([close_upvalues(f, 0) EXCEPT !.status = "returned",
                                            !.returned = vals])
        ELSE Ok(pop_frame(f, vals))

varargs(f, dest, count) == Ok(Deliver(f, dest, f.varargs, count))

call_function_non_destructive(f, base, args, returns) ==
    invoke(f, Reg(f, base), Slice(f, base + 1, args), base + 1 + args, returns)

\* Decimal rendering of an Integer, as a byte string.
DigitBytes == <<"0", "1", "2", "3", "4", "5", "6", "7", "8", "9">>

RECURSIVE Digits(_)
Digits(n) ==
    IF n < 0 THEN <<"-">> \o Digits(-n)
    ELSE IF n < 10 THEN <<DigitBytes[n + 1]>>
    ELSE Digits(n \div 10) \o <<DigitBytes[(n % 10) + 1]>>

\* String::concat: Strings and Integers become bytes; anything else fails.
Concatenable(v) == v.t \in {"str", "int", "num"}
ToBytes(v) ==
    IF v.t = "str" THEN v.s
    ELSE IF v.t = "int" THEN Digits(v.n)
    ELSE Digits(v.n) \o <<".", "0">>

RECURSIVE ConcatBytes(_)
ConcatBytes(vals) ==
    IF vals = <<>> THEN <<>> ELSE ToBytes(Head(vals)) \o ConcatBytes(Tail(vals))

(***************************************************************************)
(* Operators of the value domain.                                          *)
(***************************************************************************)

\* The bytes of the model's strings, in byte order.
ByteOrder == <<"-", ".", "0", "1", "2", "3", "4", "5", "6", "7", "8", "9",
               "a", "b">>
ByteRank(c) == CHOOSE i \in 1..Len(ByteOrder) : ByteOrder[i] = c

\* Lexicographic byte ordering of two strings.
RECURSIVE BytesLess(_, _)
BytesLess(x, y) ==
    IF y = <<>> THEN FALSE
    ELSE IF x = <<>> THEN TRUE
    ELSE IF ByteRank(Head(x)) # ByteRank(Head(y))
    THEN ByteRank(Head(x)) < ByteRank(Head(y))
    ELSE BytesLess(Tail(x), Tail(y))

\* The value of a string of decimal digits.
IsDecimal(b) == b # <<>> /\ \A i \in 1..Len(b) : \E d \in 1..Len(DigitBytes) : DigitBytes[d] = b[i]
RECURSIVE DecimalValue(_)
DecimalValue(b) ==
    IF b = <<>> THEN 0
    ELSE 10 * DecimalValue(SubSeq(b, 1, Len(b) - 1))
         + (CHOOSE d \in 1..Len(DigitBytes) : DigitBytes[d] = b[Len(b)]) - 1

\* Value::to_number: Integer widens, a String that is a numeral parses.
to_number(v) ==
    IF v.t \in {"int", "num"} THEN Some(v.n)
    ELSE IF v.t = "str" /\ IsDecimal(v.s) THEN Some(DecimalValue(v.s))
    ELSE None(0)

\* PartialEq for Value: Integer and Number of equal value are equal, tables
\* and functions are equal by identity.
value_eq(left, right) ==
    IF left.t \in {"int", "num"} /\ right.t \in {"int", "num"}
    THEN left.n = right.n
    ELSE left = right

\* Value::less_than and Value::less_equal: numbers by value, strings by
\* bytes, None for every other pair.
less_than(left, right) ==
    IF left.t \in {"int", "num"} /\ right.t \in {"int", "num"}
    THEN Some(left.n < right.n)
    ELSE IF left.t = "str" /\ right.t = "str"
    THEN Some(BytesLess(left.s, right.s))
    ELSE None(FALSE)

less_equal(left, right) ==
    IF left.t \in {"int", "num"} /\ right.t \in {"int", "num"}
    THEN Some(left.n <= right.n)
    ELSE IF left.t = "str" /\ right.t = "str"
    THEN Some(~BytesLess(right.s, left.s))
    ELSE None(FALSE)

(***************************************************************************)
(* The arms of run_vm's `match op` that work on registers only.  In each   *)
(* of them f.pc is already past the opcode.                                *)
(***************************************************************************)
get_table(value) ==
    IF value.t = "table" THEN [ok |-> TRUE, table |-> value, e |-> "none"]
    ELSE [ok |-> FALSE, table |-> value, e |-> "TypeError"]

\* `*registers.pc = add_offset(*registers.pc, jump)`
JumpBy(f, jump) ==
    IF add_offset_panics(f.pc, jump) THEN Panic(f)
    ELSE Ok([f EXCEPT !.pc = add_offset(f.pc, jump)])

\* `if cond { *registers.pc += 1; }`
SkipIf(f, cond) == [f EXCEPT !.pc = IF cond THEN @ + 1 ELSE @]

Test(op, f) ==
    LET value == Reg(f, op.value)
    IN  IF ~InWindow(f, op.value) THEN Panic(f)
        ELSE Ok(SkipIf(f, to_bool(value) = op.is_true))

\* TestSet copying value to dest whether it skips or not.
TestSetAlwaysCopies(op, f) ==
    LET value == Reg(f, op.value)
    IN  Ok(SetReg(SkipIf(f, to_bool(value) = op.is_true), op.dest, value))

TestSet(op, f) ==
    LET value == Reg(f, op.value)
    IN  IF ~InWindow(f, op.value) THEN Panic(f)
        ELSE IF to_bool(value) = op.is_true
        THEN Ok(SkipIf(f, TRUE))
        ELSE Store(f, op.dest, value)

\* An i64 near one of its extremes: IntegerNear("max", n) is i64::MAX + n
\* (n <= 0), IntegerNear("min", n) is i64::MIN + n (n >= 0).  Integer(i) is
\* the i64 of value i.
IntegerNear(anchor, n) == [t |-> "int", n |-> n, s |-> <<anchor>>]

\* An i64 as a * 2^63 + m: the multiple of 2^63 and the rest.
Anchor(v) == IF v.s = <<"max">> THEN 1 ELSE IF v.s = <<"min">> THEN -1 ELSE 0
Offset(v) == IF v.s = <<"max">> THEN v.n - 1 ELSE v.n

\* a * 2^63 + m lies in i64 (for the small m of the model).
InRange(a, m) == a = 0 \/ (a = 1 /\ m < 0) \/ (a = -1 /\ m >= 0)

\* The i64 of value a * 2^63 + m modulo 2^64.
Wrapped(a, m) ==
    LET b == IF InRange(a, m) THEN a
             ELSE IF a > 0 THEN a - 2 ELSE a + 2
    IN  IF b = 1 THEN IntegerNear("max", m + 1)
        ELSE IF b = -1 THEN IntegerNear("min", m)
        ELSE Integer(m)

\* `index + step` on i64: the wrapped sum, and whether it overflowed.
i64_add(x, y) ==
    [v        |-> Wrapped(Anchor(x) + Anchor(y), Offset(x) + Offset(y)),
     overflow |-> ~InRange(Anchor(x) + Anchor(y), Offset(x) + Offset(y))]

\* What 2^63 is to the comparisons of the model: farther than any offset.
Far == 1048576

\* A number that orders the i64s of the model as their values do.
Rank(v) == Anchor(v) * Far + Offset(v)

\* past_end with the boundary counted as past the end.
past_end_at_limit(step, index, limit) ==
    IF step < 0 THEN index <= limit ELSE limit <= index

\* `let past_end = if step < 0 { index < limit } else { limit < index }`
past_end(step, index, limit) ==
    IF step < 0 THEN index < limit ELSE limit < index

\* The tail both paths of NumericForLoop share: store the index, and when
\* not past the end jump and store the loop variable.
NumericForStep(op, f, index, limit, step, new_index) ==
    LET g == SetReg(f, op.base, new_index)
    IN  IF ~past_end(step, index, limit)
        THEN LET r == JumpBy(g, op.jump)
             IN  IF r.k = "panic" THEN r
                 ELSE Store(r.f, op.base + 3, new_index)
        ELSE Ok(g)

NumericForLoop(op, f) ==
    LET index == Reg(f, op.base)
        limit == Reg(f, op.base + 1)
        step  == Reg(f, op.base + 2)
    IN  IF ~InWindow(f, op.base + 2) THEN Panic(f)
        ELSE IF index.t = "int" /\ limit.t = "int" /\ step.t = "int"
        THEN LET sum == i64_add(index, step)
             IN  IF sum.overflow /\ f.overflow_checks THEN Panic(f)
                 ELSE NumericForStep(op, f, Rank(sum.v), Rank(limit),
                                     Rank(step), sum.v)
        ELSE IF to_number(index).some /\ to_number(limit).some
                /\ to_number(step).some
        THEN NumericForStep(op, f, to_number(index).v + to_number(step).v,
                            to_number(limit).v, to_number(step).v,
                            Number(to_number(index).v + to_number(step).v))
        ELSE Err(f, "BinaryOperatorError::Add")

\* GenericForLoop jumping without the copy of base[1] into base[0].
GenericForLoopNoCopy(op, f) ==
    IF to_bool(Reg(f, op.base + 1)) THEN JumpBy(f, op.jump) ELSE Ok(f)

GenericForLoop(op, f) ==
    IF ~InWindow(f, op.base + 1) THEN Panic(f)
    ELSE IF to_bool(Reg(f, op.base + 1))
    THEN JumpBy(SetReg(f, op.base, Reg(f, op.base + 1)), op.jump)
    ELSE Ok(f)

\* Both Self arms fetch the key from the constant pool, and both store the
\* table in base[1] before get_table can fail.
SelfR(op, f) ==
    LET table == Reg(f, op.table)
        key   == constants[op.key + 1]
        g     == SetReg(f, op.base + 1, table)
    IN  IF ~InWindow(f, op.table) \/ ~InPool(op.key) THEN Panic(f)
        ELSE IF ~InWindow(f, op.base + 1) THEN Panic(f)
        ELSE IF ~get_table(table).ok THEN Err(g, get_table(table).e)
        ELSE Ok(SetReg(g, op.base, get(f.heap[table.n], key)))

SelfC(op, f) ==
    LET table == Reg(f, op.table)
        key   == constants[op.key + 1]
        g     == SetReg(f, op.base + 1, table)
    IN  IF ~InWindow(f, op.table) \/ ~InPool(op.key) THEN Panic(f)
        ELSE IF ~InWindow(f, op.base + 1) THEN Panic(f)
        ELSE IF ~get_table(table).ok THEN Err(g, get_table(table).e)
        ELSE Ok(SetReg(g, op.base, get(f.heap[table.n], key)))

\* String::concat(..).unwrap(): a value that does not concatenate panics.
Concat(op, f) ==
    IF op.source + op.count > Len(f.stack_frame) THEN Panic(f)
    ELSE IF \A i \in 1..op.count : Concatenable(Slice(f, op.source, op.count)[i])
    THEN Store(f, op.dest, String(ConcatBytes(Slice(f, op.source, op.count))))
    ELSE Panic(f)

Length(op, f) ==
    LET t == get_table(Reg(f, op.source))
    IN  IF ~InWindow(f, op.source) THEN Panic(f)
        ELSE IF ~t.ok THEN Err(f, t.e)
        ELSE Store(f, op.dest, Integer(Len(f.heap[t.table.n].array)))

\* The Eq arms skipping on equality whatever skip_if says.
EqIgnoresSkipIf(f, left, right, skip_if) ==
    Ok(SkipIf(f, value_eq(left, right)))

\* The body the four Eq arms share, operands already fetched.
Eq(f, left, right, skip_if) ==
    Ok(SkipIf(f, value_eq(left, right) = skip_if))

\* The body the four Less arms share.
Less(f, left, right, skip_if) ==
    IF ~less_than(left, right).some THEN Err(f, "BinaryOperatorError::LessThan")
    ELSE Ok(SkipIf(f, less_than(left, right).v = skip_if))

\* The body the four LessEq arms share.
LessEq(f, left, right, skip_if) ==
    IF ~less_equal(left, right).some THEN Err(f, "BinaryOperatorError::LessEqual")
    ELSE Ok(SkipIf(f, less_equal(left, right).v = skip_if))

\* An operand from the constant pool.
Const(i) == constants[i + 1]

\* The comparison arms that fetch their left, their right operand from a
\* register.
LeftInRegister ==
    {"EqRR", "EqRC", "LessRR", "LessRC", "LessEqRR", "LessEqRC"}
RightInRegister ==
    {"EqRR", "EqCR", "LessRR", "LessCR", "LessEqRR", "LessEqCR"}

\* The twelve comparison arms: each letter of the suffix says where the
\* operand comes from.
Compare(op, f) ==
    IF \/ ~Fetchable(f, IF op.op \in LeftInRegister THEN "R" ELSE "C", op.left)
       \/ ~Fetchable(f, IF op.op \in RightInRegister THEN "R" ELSE "C", op.right)
    THEN Panic(f)
    ELSE
    CASE op.op = "EqRR" -> Eq(f, Reg(f, op.left), Reg(f, op.right), op.skip_if)
      [] op.op = "EqRC" -> Eq(f, Reg(f, op.left), Const(op.right), op.skip_if)
      [] op.op = "EqCR" -> Eq(f, Const(op.left), Reg(f, op.right), op.skip_if)
      [] op.op = "EqCC" -> Eq(f, Const(op.left), Const(op.right), op.skip_if)
      [] op.op = "LessRR" -> Less(f, Reg(f, op.left), Reg(f, op.right), op.skip_if)
      [] op.op = "LessRC" -> Less(f, Reg(f, op.left), Const(op.right), op.skip_if)
      [] op.op = "LessCR" -> Less(f, Const(op.left), Reg(f, op.right), op.skip_if)
      [] op.op = "LessCC" -> Less(f, Const(op.left), Const(op.right), op.skip_if)
      [] op.op = "LessEqRR" -> LessEq(f, Reg(f, op.left), Reg(f, op.right), op.skip_if)
      [] op.op = "LessEqRC" -> LessEq(f, Reg(f, op.left), Const(op.right), op.skip_if)
      [] op.op = "LessEqCR" -> LessEq(f, Const(op.left), Reg(f, op.right), op.skip_if)
      [] op.op = "LessEqCC" -> LessEq(f, Const(op.left), Const(op.right), op.skip_if)

Comparisons ==
    {"EqRR", "EqRC", "EqCR", "EqCC", "LessRR", "LessRC", "LessCR", "LessCC",
     "LessEqRR", "LessEqRC", "LessEqCR", "LessEqCC"}

(***************************************************************************)
(* Closures and upvalues.                                                  *)
(***************************************************************************)
\* current_function.0.proto.prototypes: a setter and a getter over the
\* enclosing frame's register 0, a prototype asking for _ENV, and one that
\* captures register 0 and then an upvalue the enclosing closure lacks.
prototypes ==
    << [upvalues |-> <<[kind |-> "Outer", index |-> 0],
                       [kind |-> "ParentLocal", index |-> 0]>>,
        opcodes  |-> << [op |-> "SetUpValue", source |-> 0, dest |-> 1],
                        [op |-> "Return", start |-> 0, count |-> 0] >>],
       [upvalues |-> <<[kind |-> "ParentLocal", index |-> 0],
                       [kind |-> "Outer", index |-> 0]>>,
        opcodes  |-> << [op |-> "GetUpValue", source |-> 0, dest |-> 0],
                        [op |-> "Return", start |-> 0, count |-> 1] >>],
       [upvalues |-> <<[kind |-> "Environment", index |-> 0]>>,
        opcodes  |-> << [op |-> "Return", start |-> 0, count |-> 0] >>],
       [upvalues |-> <<[kind |-> "ParentLocal", index |-> 0],
                       [kind |-> "Outer", index |-> 1]>>,
        opcodes  |-> << [op |-> "Return", start |-> 0, count |-> 0] >>] >>

\* capture treating an Outer(j) descriptor as a ParentLocal(j).
capture_outer_as_local(f, desc) ==
    IF desc.kind = "Environment" THEN [k |-> "panic", f |-> f, cell |-> 0]
    ELSE [k |-> "ok", f |-> open_upvalue(f, desc.index).f,
          cell |-> open_upvalue(f, desc.index).cell]

\* The body of `for &desc in &proto.upvalues`: the upvalue one descriptor
\* stands for.
capture(f, desc) ==
    CASE desc.kind = "Environment" -> [k |-> "panic", f |-> f, cell |-> 0]
      [] desc.kind = "ParentLocal" ->
            [k |-> "ok", f |-> open_upvalue(f, desc.index).f,
             cell |-> open_upvalue(f, desc.index).cell]
      [] desc.kind = "Outer" ->
            IF ~HasUpValue(f, desc.index) THEN [k |-> "panic", f |-> f, cell |-> 0]
            ELSE [k |-> "ok", f |-> f, cell |-> f.upvalues[desc.index + 1]]

\* The loop over the descriptors, pushing onto `upvalues` in their order.
RECURSIVE captures(_, _, _)
captures(descs, f, upvalues) ==
    IF descs = <<>> THEN [k |-> "ok", f |-> f, upvalues |-> upvalues]
    ELSE LET r == capture(f, Head(descs))
         IN  IF r.k = "panic" THEN [k |-> "panic", f |-> f, upvalues |-> upvalues]
             ELSE captures(Tail(descs), r.f, Append(upvalues, r.cell))

\* A panic inside the loop leaves the upvalues the earlier descriptors have
\* opened; the closure is allocated before the store to dest.
Closure(op, f) ==
    LET proto == op.proto + 1
        r     == captures(prototypes[proto].upvalues, f, <<>>)
        g     == [r.f EXCEPT !.closures =
                     Append(@, [proto |-> proto, upvalues |-> r.upvalues])]
    IN  IF op.proto >= Len(prototypes) THEN Panic(f)
        ELSE IF r.k = "panic" THEN Panic(r.f)
        ELSE Store(g, op.dest, FunctionClosure(Len(g.closures)))

GetUpValue(op, f) ==
    IF ~HasUpValue(f, op.source) THEN Panic(f)
    ELSE Store(f, op.dest, get_upvalue(f, f.upvalues[op.source + 1]))

\* SetUpValue always writing through the closure's first upvalue.
SetUpValueFirst(op, f) ==
    Ok(set_upvalue(f, f.upvalues[1], Reg(f, op.source)))

SetUpValue(op, f) ==
    IF ~HasUpValue(f, op.dest) \/ ~InWindow(f, op.source) THEN Panic(f)
    ELSE Ok(set_upvalue(f, f.upvalues[op.dest + 1], Reg(f, op.source)))

\* Jump ignoring close_upvalues.
JumpNeverCloses(op, f) == JumpBy(f, op.offset)

Jump(op, f) ==
    IF add_offset_panics(f.pc, op.offset) THEN Panic(f)
    ELSE LET g == [f EXCEPT !.pc = add_offset(f.pc, op.offset)]
         IN  IF op.close_upvalues.some
             THEN Ok(close_upvalues(g, op.close_upvalues.v))
             ELSE Ok(g)

(***************************************************************************)
(* The binary operators of Value and the 48 arms that apply them: an       *)
(* opcode names its operator (op) and its operand modes (mode).            *)
(***************************************************************************)
\* A value of tag t that lies outside the values the model tells apart (a
\* float that is not integral or not finite, an integer beyond 32 bits).
Unrepresented(t) == [t |-> t, n |-> 0, s |-> <<"?">>]

Represented(v) == v.s # <<"?">>

\* Division rounding toward minus infinity, for b # 0.
FloorDiv(a, b) == IF b > 0 THEN a \div b ELSE (-a) \div (-b)

\* Bitwise AND, OR, XOR of two's-complement integers, bit by bit.
RECURSIVE Bits(_, _, _)
Bits(which, a, b) ==
    IF (a = 0 \/ a = -1) /\ (b = 0 \/ b = -1)
    THEN LET x == a = -1
             y == b = -1
             z == CASE which = "BitAnd" -> x /\ y
                    [] which = "BitOr"  -> x \/ y
                    [] which = "BitXor" -> x # y
         IN  IF z THEN -1 ELSE 0
    ELSE LET x == a % 2 = 1
             y == b % 2 = 1
             z == CASE which = "BitAnd" -> x /\ y
                    [] which = "BitOr"  -> x \/ y
                    [] which = "BitXor" -> x # y
         IN  (IF z THEN 1 ELSE 0) + 2 * Bits(which, FloorDiv(a, 2), FloorDiv(b, 2))

\* Logical shift of a 64-bit integer: left by n >= 0, right by -n.
Shift(a, n) ==
    IF n >= 64 \/ n <= -64 THEN Integer(0)
    ELSE IF n >= 0
    THEN (IF n <= 16 /\ a >= -1024 /\ a <= 1024 THEN Integer(a * 2^n)
          ELSE Unrepresented("int"))
    ELSE IF a >= 0 THEN (IF -n <= 30 THEN Integer(a \div 2^(-n)) ELSE Integer(0))
    ELSE Unrepresented("int")

\* The coercion of an operand of a bitwise operator to Integer.
to_integer(v) == IF v.t \in {"int", "num"} /\ Represented(v) THEN Some(v.n) ELSE None(0)

\* Value::add, subtract, multiply, float_divide, floor_divide, modulo,
\* exponentiate, bitwise_and, bitwise_or, bitwise_xor, shift_left and
\* shift_right, by the name of the opcode family that calls each.
binary_operator(which, left, right) ==
    LET ints == left.t = "int" /\ right.t = "int"
        nums == to_number(left).some /\ to_number(right).some
        l    == to_number(left).v
        r    == to_number(right).v
        known == Represented(left) /\ Represented(right)
    IN  IF which \in {"Add", "Sub", "Mul", "Div", "IDiv", "Mod", "Pow"}
        THEN IF ~nums THEN None(Nil)
             ELSE IF ~known
             THEN Some(Unrepresented(IF ints /\ which \notin {"Div", "Pow"}
                                     THEN "int" ELSE "num"))
             ELSE CASE which = "Add" ->
                         Some(IF ints THEN Integer(l + r) ELSE Number(l + r))
                    [] which = "Sub" ->
                         Some(IF ints THEN Integer(l - r) ELSE Number(l - r))
                    [] which = "Mul" ->
                         Some(IF ints THEN Integer(l * r) ELSE Number(l * r))
                    [] which = "Div" ->
                         Some(IF r # 0 /\ l % (IF r > 0 THEN r ELSE -r) = 0
                              THEN Number(FloorDiv(l, r))
                              ELSE Unrepresented("num"))
                    [] which = "IDiv" ->
                         IF ints
                         THEN (IF r = 0 THEN None(Nil)
                               ELSE Some(Integer(FloorDiv(l, r))))
                         ELSE Some(IF r = 0 THEN Unrepresented("num")
                                   ELSE Number(FloorDiv(l, r)))
                    [] which = "Mod" ->
                         IF ints
                         THEN (IF r = 0 THEN None(Nil)
                               ELSE Some(Integer(l - FloorDiv(l, r) * r)))
                         ELSE Some(IF r = 0 THEN Unrepresented("num")
                                   ELSE Number(l - FloorDiv(l, r) * r))
                    [] which = "Pow" ->
                         Some(IF r = 0 THEN Number(1)
                              ELSE IF r > 0 /\ r <= 4 /\ l >= -8 /\ l <= 8
                              THEN Number(l ^ r)
                              ELSE IF l = 1 THEN Number(1)
                              ELSE Unrepresented("num"))
        ELSE IF ~(to_integer(left).some /\ to_integer(right).some)
             THEN None(Nil)
             ELSE CASE which \in {"BitAnd", "BitOr", "BitXor"} ->
                         Some(Integer(Bits(which, to_integer(left).v,
                                           to_integer(right).v)))
                    [] which = "ShiftLeft" ->
                         Some(Shift(to_integer(left).v, to_integer(right).v))
                    [] which = "ShiftRight" ->
                         Some(Shift(to_integer(left).v, -to_integer(right).v))

BinaryOperators ==
    {"Add", "Sub", "Mul", "Div", "IDiv", "Mod", "Pow", "BitAnd", "BitOr",
     "BitXor", "ShiftLeft", "ShiftRight"}

\* The BinaryOperatorError variant that belongs to each operator.
error_kind(which) ==
    CASE which = "Add"  -> "BinaryOperatorError::Add"
      [] which = "Sub"  -> "BinaryOperatorError::Subtract"
      [] which = "Mul"  -> "BinaryOperatorError::Multiply"
      [] which = "Div"  -> "BinaryOperatorError::FloatDivide"
      [] which = "IDiv" -> "BinaryOperatorError::FloorDivide"
      [] which = "Mod"  -> "BinaryOperatorError::Modulo"
      [] which = "Pow"  -> "BinaryOperatorError::Exponentiate"
      [] which = "BitAnd" -> "BinaryOperatorError::BitAnd"
      [] which = "BitOr"  -> "BinaryOperatorError::BitOr"
      [] which = "BitXor" -> "BinaryOperatorError::BitXor"
      [] which = "ShiftLeft"  -> "BinaryOperatorError::ShiftLeft"
      [] which = "ShiftRight" -> "BinaryOperatorError::ShiftRight"

\* The variant each arm hands to ok_or: its operator's own, except that the
\* SubRR arm hands over BinaryOperatorError::Add.
ok_or(op) ==
    IF op.op = "Sub" /\ op.mode = "RR" THEN error_kind("Add")
    ELSE error_kind(op.op)

\* The 48 arms AddRR .. ShiftRightCC.
Binary(op, f) ==
    LET left  == IF op.mode \in {"RR", "RC"} THEN Reg(f, op.left)
                 ELSE Const(op.left)
        right == IF op.mode \in {"RR", "CR"} THEN Reg(f, op.right)
                 ELSE Const(op.right)
        v     == binary_operator(op.op, left, right)
    IN  IF \/ ~Fetchable(f, IF op.mode \in {"RR", "RC"} THEN "R" ELSE "C", op.left)
           \/ ~Fetchable(f, IF op.mode \in {"RR", "CR"} THEN "R" ELSE "C", op.right)
        THEN Panic(f)
        ELSE IF ~v.some THEN Err(f, ok_or(op))
        ELSE Store(f, op.dest, v.v)

(***************************************************************************)
(* Table reads and writes, the unary operators and NumericForPrep.         *)
(***************************************************************************)
\* The body the table reads share: `dest = get_table(table)?.get(key)`.
\* The key is fetched after get_table has passed, the store comes last.
TableRead(f, dest, table, letter, key) ==
    LET t == get_table(table)
    IN  IF ~t.ok THEN Err(f, t.e)
        ELSE IF ~Fetchable(f, letter, key) THEN Panic(f)
        ELSE Store(f, dest, get(f.heap[table.n], Operand(f, letter, key)))

\* The body the table writes share: `get_table(table)?.set(mc, key, value)?`.
\* The key and the value are fetched after get_table has passed.
TableWrite(f, table, mode, key, value) ==
    LET t == get_table(table)
        k == Operand(f, IF mode \in {"RR", "RC"} THEN "R" ELSE "C", key)
        v == Operand(f, IF mode \in {"RR", "CR"} THEN "R" ELSE "C", value)
    IN  IF ~t.ok THEN Err(f, t.e)
        ELSE IF \/ ~Fetchable(f, IF mode \in {"RR", "RC"} THEN "R" ELSE "C", key)
                \/ ~Fetchable(f, IF mode \in {"RR", "CR"} THEN "R" ELSE "C", value)
        THEN Panic(f)
        ELSE IF ~set(f.heap[table.n], k, v).ok
        THEN Err(f, "InvalidTableKey")
        ELSE Ok([f EXCEPT !.heap[table.n] = set(@, k, v).T])

\* NewTable: a fresh, empty table at the end of the heap.
NewTable(op, f) ==
    Store([f EXCEPT !.heap = Append(@, [array |-> <<>>, map |-> {}])],
          op.dest, Table(Len(f.heap) + 1))

\* GetTable clearing dest when the value is no table.
GetTableClearsDest(op, f) ==
    IF ~get_table(Reg(f, op.table)).ok
    THEN Err(SetReg(f, op.dest, Nil), "TypeError")
    ELSE TableRead(f, op.dest, Reg(f, op.table), op.mode, op.key)

\* GetTableR and GetTableC.
GetTable(op, f) ==
    IF ~InWindow(f, op.table) THEN Panic(f)
    ELSE TableRead(f, op.dest, Reg(f, op.table), op.mode, op.key)

\* SetTableRR, SetTableRC, SetTableCR and SetTableCC.
SetTable(op, f) ==
    IF ~InWindow(f, op.table) THEN Panic(f)
    ELSE TableWrite(f, Reg(f, op.table), op.mode, op.key, op.value)

\* GetUpTableR and GetUpTableC: the table comes from an upvalue.
GetUpTable(op, f) ==
    IF ~HasUpValue(f, op.table) THEN Panic(f)
    ELSE TableRead(f, op.dest, get_upvalue(f, f.upvalues[op.table + 1]),
                   op.mode, op.key)

\* SetUpTableRR, SetUpTableRC, SetUpTableCR and SetUpTableCC.
SetUpTable(op, f) ==
    IF ~HasUpValue(f, op.table) THEN Panic(f)
    ELSE TableWrite(f, get_upvalue(f, f.upvalues[op.table + 1]),
                    op.mode, op.key, op.value)

\* Value::not, Value::negate and Value::bitwise_not.
not(v) == Boolean(~to_bool(v))
negate(v) ==
    IF v.t = "int" THEN Some(Integer(-v.n))
    ELSE IF v.t = "num" THEN Some(Number(-v.n))
    ELSE None(Nil)
bitwise_not(v) ==
    IF to_integer(v).some THEN Some(Integer(-to_integer(v).v - 1))
    ELSE None(Nil)

Not(op, f) ==
    IF ~InWindow(f, op.source) THEN Panic(f)
    ELSE Store(f, op.dest, not(Reg(f, op.source)))

Minus(op, f) ==
    LET v == negate(Reg(f, op.source))
    IN  IF ~InWindow(f, op.source) THEN Panic(f)
        ELSE IF ~v.some THEN Err(f, "BinaryOperatorError::UnaryNegate")
        ELSE Store(f, op.dest, v.v)

\* The arm reports UnaryNegate as Minus does.
BitNot(op, f) ==
    LET v == bitwise_not(Reg(f, op.source))
    IN  IF ~InWindow(f, op.source) THEN Panic(f)
        ELSE IF ~v.some THEN Err(f, "BinaryOperatorError::UnaryNegate")
        ELSE Store(f, op.dest, v.v)

\* base[0] -= base[2], then the jump.
NumericForPrep(op, f) ==
    LET v == binary_operator("Sub", Reg(f, op.base), Reg(f, op.base + 2))
    IN  IF ~InWindow(f, op.base + 2) THEN Panic(f)
        ELSE IF ~v.some THEN Err(f, error_kind("Sub"))
        ELSE JumpBy(SetReg(f, op.base, v.v), op.jump)

(***************************************************************************)
(* run_vm                                                                  *)
(***************************************************************************)
\* Breaks with the `break` of the VarArgs arm forgotten.
BreaksNoVarArgs(op) ==
    op.op \in {"Call", "TailCall", "Return", "GenericForCall"}

\* Breaks with the `break` of the Call arm forgotten.
BreaksNoCall(op) ==
    op.op \in {"TailCall", "Return", "VarArgs", "GenericForCall"}

\* The opcodes whose arm ends in `break`.
Breaks(op) ==
    op.op \in {"Call", "TailCall", "Return", "VarArgs", "GenericForCall"}

\* The five varargs consumers, through the frame primitive each one calls.
FrameOp(op, f) ==
    CASE op.op = "Call"     -> call_function(f, op.func, op.args, op.returns)
      [] op.op = "TailCall" -> tail_call_function(f, op.func, op.args)
      [] op.op = "Return"   -> return_upper(f, op.start, op.count)
      [] op.op = "VarArgs"  -> varargs(f, op.dest, op.count)
      [] op.op = "GenericForCall" ->
            call_function_non_destructive(f, op.base, 2, op.var_count)

Move(op, f) ==
    IF ~InWindow(f, op.source) THEN Panic(f)
    ELSE Store(f, op.dest, Reg(f, op.source))

LoadConstant(op, f) ==
    IF ~InPool(op.constant) THEN Panic(f)
    ELSE Store(f, op.dest, constants[op.constant + 1])

\* The store comes before the skip.
LoadBool(op, f) ==
    IF ~InWindow(f, op.dest) THEN Panic(f)
    ELSE Ok(SkipIf(SetReg(f, op.dest, Boolean(op.value)), op.skip_next))

\* One arm of the fixed-register `match op`; f.pc is already past the opcode.
ExecOp(op, f) ==
    CASE op.op = "Move" -> Move(op, f)
      [] op.op = "LoadConstant" -> LoadConstant(op, f)
      [] op.op = "LoadBool" -> LoadBool(op, f)
      [] op.op = "LoadNil" -> LoadNil(op, f)
      [] op.op = "NewTable" -> NewTable(op, f)
      [] op.op = "Jump" -> Jump(op, f)
      [] op.op = "Closure" -> Closure(op, f)
      [] op.op = "GetUpValue" -> GetUpValue(op, f)
      [] op.op = "SetUpValue" -> SetUpValue(op, f)
      [] op.op = "Test" -> Test(op, f)
      [] op.op = "TestSet" -> TestSet(op, f)
      [] op.op = "GetTable" -> GetTable(op, f)
      [] op.op = "SetTable" -> SetTable(op, f)
      [] op.op = "GetUpTable" -> GetUpTable(op, f)
      [] op.op = "SetUpTable" -> SetUpTable(op, f)
      [] op.op = "Not" -> Not(op, f)
      [] op.op = "Minus" -> Minus(op, f)
      [] op.op = "BitNot" -> BitNot(op, f)
      [] op.op = "NumericForPrep" -> NumericForPrep(op, f)
      [] op.op = "NumericForLoop" -> NumericForLoop(op, f)
      [] op.op = "GenericForLoop" -> GenericForLoop(op, f)
      [] op.op = "SelfR" -> SelfR(op, f)
      [] op.op = "SelfC" -> SelfC(op, f)
      [] op.op = "Concat" -> Concat(op, f)
      [] op.op = "Length" -> Length(op, f)
      [] op.op \in Comparisons -> Compare(op, f)
      [] op.op \in BinaryOperators -> Binary(op, f)
      [] OTHER -> FrameOp(op, f)

\* Decrement charging Concat one unit per register it joins.
DecrementPerRegister(instructions, op) ==
    IF op.op = "Concat" THEN instructions - op.count ELSE instructions - 1

\* `instructions -= 1`, once per opcode fetched.
Decrement(instructions, op) == instructions - 1

\* The test that ends the fixed-register loop after an opcode.
BudgetSpent(instructions) == instructions = 0

\* What run_vm hands back: the frame, and Ok(left) / Err(e) / a panic.
Returned(f, left)  == [f |-> f, kind |-> "Ok",    left |-> left, e |-> "none"]
Failed(f, e)       == [f |-> [f EXCEPT !.status = "error", !.err = e],
                       kind |-> "Err", left |-> 0, e |-> e]
Panicked(f)        == [f |-> [f EXCEPT !.status = "panic", !.err = "panic"],
                       kind |-> "Panic", left |-> 0, e |-> "panic"]

\* `opcodes[pc]; pc += 1`, with the history of executed opcodes.
Fetched(f) == [f EXCEPT !.pc = @ + 1, !.trace = Append(@, f.pc)]

\* The loop of the fixed-register branch.
RECURSIVE Loop(_, _, _)
Loop(ops, f, instructions) ==
    IF f.pc >= Len(ops) THEN Panicked(f)       \* opcodes[pc] out of bounds
    ELSE
      LET op == ops[f.pc + 1]
          n  == Decrement(instructions, op)
          r  == ExecOp(op, Fetched(f))
      IN  IF r.k = "err" THEN Failed(r.f, r.e)
          ELSE IF r.k = "panic" THEN Panicked(r.f)
          ELSE IF Breaks(op) THEN Returned(r.f, n)
          ELSE IF BudgetSpent(n) THEN Returned(r.f, n)
          ELSE Loop(ops, r.f, n)

\* VarArgsConsumer with the VarArgs arm missing from the match.
VarArgsConsumerNoVarArgs(op) ==
    op.op \in {"Call", "TailCall", "Return", "GenericForCall"}

\* The opcodes allowed in the variable stack-frame state.
VarArgsConsumer(op) ==
    op.op \in {"Call", "TailCall", "Return", "VarArgs", "GenericForCall"}

\* The branch taken when constant_registers() is None.
VariableStep(ops, f, instructions) ==
    IF f.pc >= Len(ops) THEN Panicked(f)
    ELSE
      LET op == ops[f.pc + 1]
          n  == Decrement(instructions, op)
          g  == Fetched(f)
      IN  IF VarArgsConsumer(op)
          THEN LET r == FrameOp(op, g)
               IN  IF r.k = "err" THEN Failed(r.f, r.e) ELSE Returned(r.f, n)
          ELSE Failed(g, "ExpectedVariable")

run_vm(ops, f, instructions) ==
    IF instructions = 0 THEN Panicked(f)       \* assert!(instructions != 0)
    ELSE IF ~f.variable THEN Loop(ops, f, instructions)
    ELSE VariableStep(ops, f, instructions)

(***************************************************************************)
(* The dispatcher's specification: a driver that steps one frame.          *)
(***************************************************************************)
OpSet ==
    { [op |-> "Move", dest |-> 2, source |-> 1],
      [op |-> "LoadConstant", dest |-> 2, constant |-> 1],
      [op |-> "LoadBool", dest |-> 3, value |-> TRUE, skip_next |-> TRUE],
      [op |-> "LoadNil", dest |-> 1, count |-> 2],
      [op |-> "Jump", offset |-> 1, close_upvalues |-> None(0)],
      [op |-> "Test", value |-> 2, is_true |-> FALSE],
      [op |-> "Concat", dest |-> 0, source |-> 1, count |-> 2],
      [op |-> "Call", func |-> 0, args |-> 1, returns |-> Variable],
      [op |-> "Call", func |-> 0, args |-> 2, returns |-> 1],
      [op |-> "TailCall", func |-> 0, args |-> Variable],
      [op |-> "VarArgs", dest |-> 1, count |-> Variable],
      [op |-> "GenericForCall", base |-> 0, var_count |-> 1] }

FinalReturn == [op |-> "Return", start |-> 0, count |-> Variable]

\* Well-formed opcode vectors: a body, closed by a Return.
Programs ==
    { body \o <<FinalReturn>> :
        body \in UNION { [1..n -> OpSet] : n \in 0..MaxProgLen } }

NoRet == [kind |-> "None", left |-> 0, e |-> "none"]

InitLexIdle ==
    /\ stream = <<>>
    /\ pos = 0
    /\ line_number = 0
    /\ output_buffer = <<>>
    /\ result = [kind |-> "None", tok |-> "None", payload |-> <<>>,
                 line |-> -1, msg |-> "", begin |-> 0]
    /\ tok_start = 0
    /\ call_pos = 0

Init ==
    /\ opcodes \in Programs
    /\ budget \in 0..MaxBudget
    /\ frame \in {NewFrame(Function(1)), NewFrame(Integer(1))}
    /\ whole = frame
    /\ before = frame
    /\ ret = NoRet
    /\ InitLexIdle

\* The driver calls run_vm(frame, budget).
RunSliced ==
    /\ frame.status = "running"
    /\ LET r == run_vm(opcodes, frame, budget)
       IN  /\ frame' = r.f
           /\ ret' = [kind |-> r.kind, left |-> r.left, e |-> r.e]
    /\ before' = frame
    /\ UNCHANGED <<opcodes, budget, whole>>
    /\ UNCHANGED lexvars

\* The reference driver calls run_vm(whole, unlimited).
RunWhole ==
    /\ whole.status = "running"
    /\ whole' = run_vm(opcodes, whole, Unlimited).f
    /\ UNCHANGED <<opcodes, budget, frame, ret, before>>
    /\ UNCHANGED lexvars

Next == RunSliced \/ RunWhole

Spec == Init /\ [][Next]_vars

(***************************************************************************)
(* Vocabulary of the dispatcher's properties.                              *)
(***************************************************************************)
Called == ret.kind # "None"

\* The opcodes the last call executed, in order.
ExecutedPcs == SubSeq(frame.trace, Len(before.trace) + 1, Len(frame.trace))
Executed    == Len(ExecutedPcs)
ExecutedOp(i) == opcodes[ExecutedPcs[i] + 1]

FrameChangers == {"Call", "TailCall", "Return", "VarArgs", "GenericForCall"}

IsPrefix(s, t) == Len(s) <= Len(t) /\ SubSeq(t, 1, Len(s)) = s

Done(f) == f.status # "running"

\* C1: with a budget b >= 1 a call executes at most b opcodes, and a call
\* that succeeds returns b minus the number of opcodes it executed (every
\* opcode, Concat included, costs exactly one).
C1_BudgetAccounting ==
    (Called /\ budget >= 1) =>
        /\ Executed <= budget
        /\ ret.kind = "Ok" => ret.left = budget - Executed

C1_Witness ==
    /\ Called /\ budget >= 2 /\ ret.kind = "Ok" /\ ret.left >= 1
    /\ Executed >= 2
    /\ \E i \in 1..Executed : ExecutedOp(i).op = "Concat"

\* C2: a call with a budget of zero returns normally with 0 left, executes
\* no opcode and changes neither pc nor any register.
C2_ZeroBudgetReturns ==
    (Called /\ budget = 0) =>
        /\ ret.kind = "Ok" /\ ret.left = 0
        /\ Executed = 0
        /\ frame.pc = before.pc /\ frame.stack_frame = before.stack_frame

\* C3: for every budget b >= 1 the frame driven in slices of b executes
\* the same opcodes as the frame driven with an unlimited budget, is in the
\* same registers and pc whenever both have executed the same number of
\* opcodes, and ends in the same outcome.
C3_SlicingEquivalence ==
    budget >= 1 =>
        /\ IsPrefix(frame.trace, whole.trace) \/ IsPrefix(whole.trace, frame.trace)
        /\ Len(frame.trace) = Len(whole.trace) =>
              /\ frame.pc = whole.pc
              /\ frame.stack_frame = whole.stack_frame
              /\ frame.variable = whole.variable
              /\ frame.top = whole.top
        /\ (Done(frame) /\ Done(whole)) => frame = whole

C3_Witness ==
    /\ budget = 1
    /\ frame.status = "returned" /\ whole.status = "returned"
    /\ Len(frame.trace) >= 3
    /\ frame.stack_frame # NewFrame(frame.stack_frame[1]).stack_frame

\* C4: in the variable stack-frame state a call executes exactly one
\* opcode whatever the budget; a Call, TailCall, Return, VarArgs or
\* GenericForCall is carried out, any other opcode returns ExpectedVariable
\* and leaves the registers as they were.
C4_VariableState ==
    (Called /\ budget >= 1 /\ before.variable) =>
        /\ Executed = 1
        /\ LET op == ExecutedOp(1)
               g  == [before EXCEPT !.pc = @ + 1, !.trace = frame.trace]
           IN IF op.op \in FrameChangers
              THEN /\ ret.e # "ExpectedVariable"
                   /\ ret.kind = "Ok" => /\ frame = FrameOp(op, g).f
                                         /\ ret.left = budget - 1
              ELSE /\ ret.kind = "Err" /\ ret.e = "ExpectedVariable"
                   /\ frame.stack_frame = before.stack_frame

C4_Witness ==
    /\ Called /\ budget >= 2 /\ before.variable
    /\ ExecutedOp(1).op = "Move"
    /\ ret.e = "ExpectedVariable"

\* C5: in the fixed-register state a frame-changing opcode is always the
\* last opcode a call executes, and a call that succeeds either stopped on
\* one (returning the unused budget) or used its budget up.
C5_StopsAtFrameChange ==
    (Called /\ budget >= 1 /\ ~before.variable) =>
        /\ \A i \in 1..(Executed - 1) : ExecutedOp(i).op \notin FrameChangers
        /\ ret.kind = "Ok" =>
              /\ Executed >= 1
              /\ ret.left = budget - Executed
              /\ ExecutedOp(Executed).op \in FrameChangers \/ ret.left = 0

C5_Witness ==
    /\ Called /\ ~before.variable /\ ret.kind = "Ok"
    /\ Executed >= 2 /\ ret.left >= 1
    /\ ExecutedOp(Executed).op = "Call"
    /\ frame.status = "running"

(***************************************************************************)
(* A second driver: one opcode at the head of a short program, run from    *)
(* every frame whose first three registers hold values of a small set,     *)
(* one opcode per call.                                                    *)
(***************************************************************************)
MaxInt   == 1        \* integers in registers range over -MaxInt..MaxInt
MaxSteps == 3        \* opcodes the driver lets one frame execute

StepValues ==
    {Nil, Boolean(FALSE), Boolean(TRUE), Number(1), String(<<"a">>),
     String(<<"b">>), Table(1), Function(1)}
    \cup {Integer(i) : i \in (-MaxInt)..MaxInt}

\* The function has two closed upvalues: a table and the value register 0
\* starts with.
StepFrames ==
    { [NewFrame(r0) EXCEPT
          !.stack_frame =
              [i \in 1..NumRegs |->
                  IF i = 1 THEN r0 ELSE IF i = 2 THEN r1
                  ELSE IF i = 3 THEN r2 ELSE Nil],
          !.upvalues = <<1, 2>>,
          !.cells = @ \o <<[open |-> FALSE, depth |-> 0, at |-> 0,
                            value |-> r0]>>] :
        r0 \in StepValues, r1 \in StepValues, r2 \in StepValues }

\* The opcodes under test.  Loops jump back onto themselves or forward to
\* the Return; Self writes base[0..1] = registers 2 and 3.
StepOps ==
    { [op |-> "Test", value |-> 0, is_true |-> b] : b \in BOOLEAN }
    \cup { [op |-> "TestSet", dest |-> 1, value |-> 0, is_true |-> b] :
             b \in BOOLEAN }
    \cup { [op |-> "NumericForLoop", base |-> 0, jump |-> j] : j \in {-1, 2} }
    \cup { [op |-> "GenericForLoop", base |-> 0, jump |-> j] : j \in {-1, 2} }
    \cup { [op |-> "SelfR", base |-> 2, table |-> 0, key |-> 1],
           [op |-> "SelfC", base |-> 2, table |-> 0, key |-> 1],
           [op |-> "Concat", dest |-> 3, source |-> 0, count |-> 2],
           [op |-> "Length", dest |-> 3, source |-> 0] }
    \cup { [op |-> o, skip_if |-> b, left |-> 0, right |-> 1] :
             o \in {"EqRR", "LessRR", "LessEqRR"}, b \in BOOLEAN }
    \cup { [op |-> o, skip_if |-> b, left |-> 0, right |-> 2] :
             o \in {"EqRC", "LessRC", "LessEqRC"}, b \in BOOLEAN }
    \cup { [op |-> o, skip_if |-> b, left |-> 1, right |-> 0] :
             o \in {"EqCR", "LessCR", "LessEqCR"}, b \in BOOLEAN }
    \cup { [op |-> o, skip_if |-> b, left |-> 0, right |-> 2] :
             o \in {"EqCC", "LessCC", "LessEqCC"}, b \in BOOLEAN }
    \cup { [op |-> o, mode |-> "RR", dest |-> 3, left |-> 0, right |-> 1] :
             o \in BinaryOperators }
    \cup { [op |-> o, mode |-> "RC", dest |-> 3, left |-> 0, right |-> 2] :
             o \in BinaryOperators }
    \cup { [op |-> o, mode |-> "CR", dest |-> 3, left |-> 0, right |-> 1] :
             o \in BinaryOperators }
    \cup { [op |-> o, mode |-> "CC", dest |-> 3, left |-> 1, right |-> 2] :
             o \in BinaryOperators }
    \cup { [op |-> "GetTable", mode |-> m, dest |-> 2, table |-> 0, key |-> 1] :
             m \in {"R", "C"} }
    \cup { [op |-> "SetTable", mode |-> m, table |-> 0, key |-> 1, value |-> 2] :
             m \in {"RR", "RC", "CR", "CC"} }
    \cup { [op |-> "GetUpTable", mode |-> m, dest |-> 3, table |-> t,
            key |-> 1] : m \in {"R", "C"}, t \in {0, 1} }
    \cup { [op |-> "SetUpTable", mode |-> m, table |-> t, key |-> 1,
            value |-> 2] : m \in {"RR", "RC", "CR", "CC"}, t \in {0, 1} }
    \cup { [op |-> o, dest |-> 3, source |-> 0] : o \in {"Not", "Minus", "BitNot"} }
    \cup { [op |-> "NumericForPrep", base |-> 0, jump |-> j] : j \in {-1, 2} }
    \cup { [op |-> "NewTable", dest |-> 2] }

Nop == [op |-> "Jump", offset |-> 0, close_upvalues |-> None(0)]

StepPrograms == { <<op, Nop, Nop, FinalReturn>> : op \in StepOps }

InitOp ==
    /\ opcodes \in StepPrograms
    /\ budget = 1
    /\ frame \in StepFrames
    /\ whole = frame
    /\ before = frame
    /\ ret = NoRet
    /\ InitLexIdle

\* The driver calls run_vm(frame, 1).
StepOp ==
    /\ frame.status = "running"
    /\ Len(frame.trace) < MaxSteps
    /\ LET r == run_vm(opcodes, frame, budget)
       IN  /\ frame' = r.f
           /\ ret' = [kind |-> r.kind, left |-> r.left, e |-> r.e]
    /\ before' = frame
    /\ UNCHANGED <<opcodes, budget, whole>>
    /\ UNCHANGED lexvars

NextOp == StepOp

SpecOp == InitOp /\ [][NextOp]_vars

\* The same driver over the opcodes whose arithmetic or indexing leaves its
\* range, in a build with and in a build without overflow checks:
\* NumericForLoop with integers near the ends of i64, LoadNil with ranges
\* that stay in the window, leave it, or end past 255, and opcodes that
\* name a register just past the window or a constant just past the pool.
OverflowOps ==
    { [op |-> "NumericForLoop", base |-> 0, jump |-> j] : j \in {-1, 2} }
    \cup { [op |-> "LoadNil", dest |-> 1, count |-> 2],
           [op |-> "LoadNil", dest |-> 2, count |-> NumRegs - 1],
           [op |-> "LoadNil", dest |-> 2, count |-> 254],
           [op |-> "LoadNil", dest |-> 1, count |-> 255] }
    \cup { [op |-> "Move", dest |-> NumRegs, source |-> 0],
           [op |-> "Move", dest |-> 0, source |-> NumRegs],
           [op |-> "LoadConstant", dest |-> NumRegs, constant |-> 1],
           [op |-> "LoadConstant", dest |-> 0, constant |-> Len(constants)],
           [op |-> "LoadBool", dest |-> NumRegs, value |-> TRUE,
            skip_next |-> TRUE],
           [op |-> "NewTable", dest |-> NumRegs],
           [op |-> "Not", dest |-> NumRegs, source |-> 0],
           [op |-> "Test", value |-> NumRegs, is_true |-> TRUE],
           [op |-> "Length", dest |-> 0, source |-> NumRegs],
           [op |-> "GetUpTable", mode |-> "C", dest |-> NumRegs, table |-> 0,
            key |-> 1],
           [op |-> "GetUpTable", mode |-> "R", dest |-> 0, table |-> 0,
            key |-> NumRegs],
           [op |-> "SetUpTable", mode |-> "RR", table |-> 0, key |-> 0,
            value |-> NumRegs],
           [op |-> "Closure", proto |-> 3, dest |-> 0],
           [op |-> "Closure", proto |-> 0, dest |-> NumRegs],
           [op |-> "Closure", proto |-> Len(prototypes), dest |-> 0] }

ForValues ==
    { Integer(i) : i \in (-MaxInt)..MaxInt }
    \cup { IntegerNear("max", -i) : i \in 0..MaxInt }
    \cup { IntegerNear("min", i) : i \in 0..MaxInt }

InitFor ==
    /\ opcodes \in { <<op, Nop, Nop, FinalReturn>> : op \in OverflowOps }
    /\ budget = 1
    /\ frame \in { [NewFrame(r0) EXCEPT
                       !.stack_frame[2] = r1, !.stack_frame[3] = r2,
                       !.overflow_checks = c] :
                     r0 \in ForValues, r1 \in ForValues, r2 \in ForValues,
                     c \in BOOLEAN }
    /\ whole = frame
    /\ before = frame
    /\ ret = NoRet
    /\ InitLexIdle

SpecFor == InitFor /\ [][NextOp]_vars

(***************************************************************************)
(* Vocabulary of the properties of single opcodes.                         *)
(***************************************************************************)
\* The last call executed exactly the opcode `name`.
Stepped(name) ==
    Called /\ Executed = 1 /\ ExecutedOp(1).op = name

TheOp == ExecutedOp(1)

\* Register i (0-origin) of a frame.
R(f, i) == f.stack_frame[i + 1]

\* The frame's registers apart from register i are as before the call.
OthersUnchanged(i) ==
    \A j \in 0..(NumRegs - 1) : j # i => R(frame, j) = R(before, j)

\* pc after the opcode fell through, skipped one opcode, or jumped.
FellThrough == frame.pc = before.pc + 1
Skipped     == frame.pc = before.pc + 2
Jumped(jump) == frame.pc = before.pc + 1 + jump

\* The numeric value of a register that holds an Integer or a Number.
Num(f, i) == to_number(R(f, i)).v

\* C12: NumericForLoop adds the step to the index, and jumps and sets
\* base[3] to the new index exactly when (step > 0 and index <= limit) or
\* (step < 0 and index >= limit); otherwise, step = 0 included, it falls
\* through and leaves base[3] alone.
C12_NumericForLoop ==
    (Stepped("NumericForLoop") /\ ret.kind = "Ok") =>
        LET base  == TheOp.base
            step  == Num(before, base + 2)
            limit == Num(before, base + 1)
            index == Num(before, base) + step
        IN  /\ Num(frame, base) = index
            /\ IF (step > 0 /\ index <= limit) \/ (step < 0 /\ index >= limit)
               THEN /\ Jumped(TheOp.jump)
                    /\ R(frame, base + 3) = R(frame, base)
               ELSE /\ FellThrough
                    /\ R(frame, base + 3) = R(before, base + 3)

\* C13: on the Integer path with a non-zero step the loop continues (pc
\* jumps, base[3] := index) exactly when the incremented index is not
\* strictly past the limit; in particular it continues, with base[3] the
\* limit, when the index equals the limit, for either sign of the step.
C13_BoundaryContinues ==
    (/\ Stepped("NumericForLoop")
     /\ \A k \in 0..2 : R(before, TheOp.base + k).t = "int"
     /\ R(before, TheOp.base + 2).n # 0)
    => LET base  == TheOp.base
           step  == R(before, base + 2).n
           limit == R(before, base + 1).n
           index == R(before, base).n + step
           past  == IF step > 0 THEN index > limit ELSE index < limit
       IN  /\ ret.kind = "Ok"
           /\ R(frame, base) = Integer(index)
           /\ past => FellThrough /\ R(frame, base + 3) = R(before, base + 3)
           /\ ~past => Jumped(TheOp.jump) /\ R(frame, base + 3) = Integer(index)
           /\ index = limit => R(frame, base + 3) = Integer(limit)

C13_Witness ==
    /\ Stepped("NumericForLoop")
    /\ \A k \in 0..2 : R(before, TheOp.base + k).t = "int"
    /\ R(before, TheOp.base + 2).n < 0
    /\ R(before, TheOp.base).n + R(before, TheOp.base + 2).n
         = R(before, TheOp.base + 1).n
    /\ Jumped(TheOp.jump)
    /\ R(frame, TheOp.base + 3) = R(before, TheOp.base + 1)

\* C14: GenericForLoop with base[1] truthy copies base[1] into base[0] and
\* jumps; with base[1] Nil or false it changes no register and falls
\* through.
C14_GenericForLoop ==
    Stepped("GenericForLoop") =>
        LET base == TheOp.base
            v    == R(before, base + 1)
        IN  /\ ret.kind = "Ok"
            /\ IF v # Nil /\ v # Boolean(FALSE)
               THEN /\ R(frame, base) = v
                    /\ OthersUnchanged(base)
                    /\ Jumped(TheOp.jump)
               ELSE /\ frame.stack_frame = before.stack_frame
                    /\ FellThrough

C14_Witness ==
    /\ Stepped("GenericForLoop")
    /\ R(before, TheOp.base + 1).t = "func"
    /\ R(before, TheOp.base) # R(before, TheOp.base + 1)
    /\ R(frame, TheOp.base) = R(before, TheOp.base + 1)
    /\ Jumped(TheOp.jump)

\* C15: Test and TestSet skip the next opcode exactly when the truthiness
\* of the value equals is_true; Test writes no register; TestSet writes the
\* value to dest exactly when it does not skip.
C15_TestAndTestSet ==
    /\ Stepped("Test") =>
          LET truthy == R(before, TheOp.value) \notin {Nil, Boolean(FALSE)}
          IN  /\ ret.kind = "Ok"
              /\ frame.stack_frame = before.stack_frame
              /\ IF truthy = TheOp.is_true THEN Skipped ELSE FellThrough
    /\ Stepped("TestSet") =>
          LET truthy == R(before, TheOp.value) \notin {Nil, Boolean(FALSE)}
          IN  /\ ret.kind = "Ok"
              /\ IF truthy = TheOp.is_true
                 THEN Skipped /\ frame.stack_frame = before.stack_frame
                 ELSE /\ FellThrough
                      /\ R(frame, TheOp.dest) = R(before, TheOp.value)
                      /\ OthersUnchanged(TheOp.dest)

C15_Witness ==
    /\ Stepped("TestSet")
    /\ Skipped
    /\ R(before, TheOp.dest) # R(before, TheOp.value)
    /\ R(frame, TheOp.dest) = R(before, TheOp.dest)

\* Where the mode letters of a comparison say its operands come from.
LeftFromRegister ==
    {"EqRR", "EqRC", "LessRR", "LessRC", "LessEqRR", "LessEqRC"}
RightFromRegister ==
    {"EqRR", "EqCR", "LessRR", "LessCR", "LessEqRR", "LessEqCR"}
EqOps     == {"EqRR", "EqRC", "EqCR", "EqCC"}
LessOps   == {"LessRR", "LessRC", "LessCR", "LessCC"}

\* The comparison the opcode stands for, on the operands its mode names.
ComparisonResult(op) ==
    LET l == IF op.op \in LeftFromRegister THEN R(before, op.left)
             ELSE constants[op.left + 1]
        r == IF op.op \in RightFromRegister THEN R(before, op.right)
             ELSE constants[op.right + 1]
    IN  IF op.op \in EqOps THEN Some(value_eq(l, r))
        ELSE IF op.op \in LessOps THEN less_than(l, r)
        ELSE less_equal(l, r)

\* C16: an Eq, Less or LessEq opcode of any of the modes RR, RC, CR, CC
\* compares the operands its mode letters name, skips one opcode exactly
\* when the result equals skip_if, and never writes a register (nor when
\* the operands do not compare and the opcode fails).
C16_Comparisons ==
    (Called /\ Executed = 1 /\ TheOp.op \in Comparisons) =>
        LET c == ComparisonResult(TheOp)
        IN  /\ frame.stack_frame = before.stack_frame
            /\ c.some => /\ ret.kind = "Ok"
                         /\ IF c.v = TheOp.skip_if THEN Skipped ELSE FellThrough
            /\ ~c.some => ret.kind = "Err"

C16_Witness ==
    /\ Stepped("LessEqCR")
    /\ R(before, TheOp.right) = String(<<"b">>)
    /\ TheOp.skip_if
    /\ Skipped

\* C17: SelfR and SelfC either store the table in base[1] and table[key]
\* in base[0], or fail with a TypeError having modified neither register.
C17_SelfAtomic ==
    (Called /\ Executed = 1 /\ TheOp.op \in {"SelfR", "SelfC"}) =>
        IF R(before, TheOp.table).t = "table"
        THEN /\ ret.kind = "Ok"
             /\ R(frame, TheOp.base + 1) = R(before, TheOp.table)
        ELSE /\ ret.kind = "Err" /\ ret.e = "TypeError"
             /\ R(frame, TheOp.base) = R(before, TheOp.base)
             /\ R(frame, TheOp.base + 1) = R(before, TheOp.base + 1)

\* C18: SelfR looks the method up under the key in register `key`, SelfC
\* under the key in constant `key`.
C18_SelfKeySource ==
    /\ (Stepped("SelfR") /\ ret.kind = "Ok") =>
          R(frame, TheOp.base)
            = table_get(R(before, TheOp.table), R(before, TheOp.key))
    /\ (Stepped("SelfC") /\ ret.kind = "Ok") =>
          R(frame, TheOp.base)
            = table_get(R(before, TheOp.table), constants[TheOp.key + 1])

\* C19: Concat over a range holding a value that is not a String, Integer
\* or Number returns an error to the host and leaves dest unchanged.
C19_ConcatFailsAsError ==
    (/\ Stepped("Concat")
     /\ \E k \in 0..(TheOp.count - 1) :
           R(before, TheOp.source + k).t \notin {"str", "int", "num"})
    => /\ ret.kind = "Err"
       /\ R(frame, TheOp.dest) = R(before, TheOp.dest)

\* C20: Length stores the border of a Table and the byte length of a
\* String, and fails for every other value.
C20_Length ==
    Stepped("Length") =>
        LET v == R(before, TheOp.source)
        IN  IF v.t = "table"
            THEN ret.kind = "Ok" /\ R(frame, TheOp.dest) = Integer(table_length(v))
            ELSE IF v.t = "str"
            THEN ret.kind = "Ok" /\ R(frame, TheOp.dest) = Integer(Len(v.s))
            ELSE ret.kind = "Err"

\* C21: a binary operator opcode that fails on its operands reports the
\* error kind of its own operator, whatever its operand mode.
C21_ErrorKindOfFamily ==
    (Called /\ Executed = 1 /\ TheOp.op \in BinaryOperators /\ ret.kind = "Err")
    => ret.e = error_kind(TheOp.op)

(***************************************************************************)
(* A third driver: programs that create closures over register 0, call    *)
(* them, close upvalues and overwrite the register, one opcode per call.   *)
(***************************************************************************)
MaxUpLen == 4        \* opcodes before the closing Return

UpOps ==
    { [op |-> "Closure", proto |-> 0, dest |-> 1],
      [op |-> "Closure", proto |-> 1, dest |-> 3],
      [op |-> "Closure", proto |-> 2, dest |-> 3],
      [op |-> "Closure", proto |-> 3, dest |-> 3],
      [op |-> "Call", func |-> 1, args |-> 1, returns |-> 0],
      [op |-> "Call", func |-> 3, args |-> 0, returns |-> 1],
      [op |-> "Jump", offset |-> 0, close_upvalues |-> Some(0)],
      [op |-> "Jump", offset |-> 0, close_upvalues |-> Some(1)],
      [op |-> "Move", dest |-> 0, source |-> 2],
      [op |-> "SetUpValue", source |-> 2, dest |-> 0] }

UpPrograms ==
    { body \o <<FinalReturn>> :
        body \in UNION { [1..n -> UpOps] : n \in 0..MaxUpLen } }

\* Register 0 is the captured local, register 2 the value handed to setters.
UpFrame == [NewFrame(Integer(1)) EXCEPT !.stack_frame[3] = String(<<"a">>)]

\* current_function.0.proto.opcodes of the running frame.
CurrentOpcodes(f) ==
    IF f.proto = 0 THEN opcodes ELSE prototypes[f.proto].opcodes

InitUp ==
    /\ opcodes \in UpPrograms
    /\ budget = 1
    /\ frame = UpFrame
    /\ whole = frame
    /\ before = frame
    /\ ret = NoRet
    /\ InitLexIdle

\* The driver calls run_vm(frame, 1) on the frame on top of the thread.
StepUp ==
    /\ frame.status = "running"
    /\ LET r == run_vm(CurrentOpcodes(frame), frame, budget)
       IN  /\ frame' = r.f
           /\ ret' = [kind |-> r.kind, left |-> r.left, e |-> r.e]
    /\ before' = frame
    /\ UNCHANGED <<opcodes, budget, whole>>
    /\ UNCHANGED lexvars

NextUp == StepUp

SpecUp == InitUp /\ [][NextUp]_vars

(***************************************************************************)
(* Vocabulary of the properties of closures and upvalues.                  *)
(***************************************************************************)
\* The opcode the last call executed, in whichever function was running.
LastOp == CurrentOpcodes(before)[before.pc + 1]

\* The last call executed the opcode `name` in the outer function / in a
\* closure's body.
MainStepped(name) ==
    Called /\ Executed = 1 /\ before.proto = 0 /\ LastOp.op = name
CalleeStepped(name) ==
    Called /\ Executed = 1 /\ before.proto # 0 /\ LastOp.op = name

\* Cell c of frame f is open on register r of the outer function's frame.
OpenOn(f, c, r) ==
    f.cells[c].open /\ f.cells[c].depth = 0 /\ f.cells[c].at = r

\* Register r of the outer function's frame, whichever frame is running.
OuterReg(f, r) ==
    IF f.callers = <<>> THEN R(f, r) ELSE f.callers[1].stack_frame[r + 1]

\* What a read through cell c must give: the register while the cell is
\* open, the cell's own value once it is closed.
Seen(f, c) ==
    IF f.cells[c].open THEN OuterReg(f, f.cells[c].at) ELSE f.cells[c].value

\* The upvalue descriptors of closure k.
Descs(k) == prototypes[k.proto].upvalues

\* C22: the closure the Closure opcode builds has one upvalue per upvalue
\* descriptor of its prototype, in descriptor order: for ParentLocal(r) the
\* one open upvalue of register r, for Outer(j) the running closure's own
\* upvalue j.
C22_ClosureUpvalues ==
    (MainStepped("Closure") /\ ret.kind = "Ok") =>
        LET k == frame.closures[Len(frame.closures)]
        IN  /\ Len(frame.closures) = Len(before.closures) + 1
            /\ R(frame, LastOp.dest) = FunctionClosure(Len(frame.closures))
            /\ k.proto = LastOp.proto + 1
            /\ Len(k.upvalues) = Len(Descs(k))
            /\ \A i \in 1..Len(Descs(k)) :
                  IF Descs(k)[i].kind = "ParentLocal"
                  THEN /\ OpenOn(frame, k.upvalues[i], Descs(k)[i].index)
                       /\ \A c \in 1..Len(frame.cells) :
                             OpenOn(frame, c, Descs(k)[i].index)
                                => c = k.upvalues[i]
                  ELSE k.upvalues[i] = before.upvalues[Descs(k)[i].index + 1]

C22_Witness ==
    /\ MainStepped("Closure") /\ ret.kind = "Ok"
    /\ LastOp.proto = 1
    /\ Len(frame.closures) = 2
    /\ frame.closures[2].upvalues[2] = 1

\* C23: closures created in one frame that capture the same register with
\* no close in between share one cell; a SetUpValue through one of them is
\* what a GetUpValue through any sharer reads, and while the cell is open
\* it is what the register itself holds.
C23_SharedCell ==
    /\ \A k1, k2 \in 1..Len(frame.closures) :
         \A i1 \in 1..Len(frame.closures[k1].upvalues) :
           \A i2 \in 1..Len(frame.closures[k2].upvalues) :
             (/\ Descs(frame.closures[k1])[i1].kind = "ParentLocal"
              /\ Descs(frame.closures[k2])[i2] = Descs(frame.closures[k1])[i1]
              /\ frame.cells[frame.closures[k1].upvalues[i1]].open
              /\ frame.cells[frame.closures[k2].upvalues[i2]].open)
             => frame.closures[k1].upvalues[i1] = frame.closures[k2].upvalues[i2]
    /\ (MainStepped("Closure") /\ ret.kind = "Ok") =>
         \A c \in 1..Len(before.cells) : before.cells[c].open => frame.cells[c].open
    /\ CalleeStepped("SetUpValue") =>
         LET c == before.upvalues[LastOp.dest + 1]
         IN  /\ Seen(frame, c) = R(before, LastOp.source)
             /\ before.cells[c].open =>
                   /\ frame.cells[c].open
                   /\ OuterReg(frame, frame.cells[c].at) = R(before, LastOp.source)
    /\ CalleeStepped("GetUpValue") =>
         R(frame, LastOp.dest) = Seen(before, before.upvalues[LastOp.source + 1])

\* A getter reads, through its own upvalue, what a setter created beside it
\* stored, and the register holds it too.
C23_Witness ==
    /\ CalleeStepped("GetUpValue")
    /\ \A i \in 1..Len(opcodes) : opcodes[i].op \in {"Closure", "Call", "Return"}
    /\ Len(frame.closures) = 2
    /\ frame.closures[1].upvalues[2] = frame.closures[2].upvalues[1]
    /\ frame.cells[frame.closures[2].upvalues[1]].open
    /\ R(frame, 0) = String(<<"a">>)
    /\ OuterReg(frame, 0) = String(<<"a">>)

\* C24: a Jump with close_upvalues = r closes every upvalue open on a
\* register >= r on the register's value at that moment and leaves every
\* other upvalue as it was (open below r, or already closed); a closed
\* upvalue stays closed and changes only by a SetUpValue, so that a later
\* write to the register is not seen through the closure.
C24_JumpCloses ==
    /\ (MainStepped("Jump") /\ LastOp.close_upvalues.some /\ ret.kind = "Ok") =>
         \A c \in 1..Len(before.cells) :
            IF before.cells[c].open /\ before.cells[c].at >= LastOp.close_upvalues.v
            THEN /\ ~frame.cells[c].open
                 /\ frame.cells[c].value = R(before, before.cells[c].at)
            ELSE frame.cells[c] = before.cells[c]
    /\ (Called /\ Executed = 1) =>
         \A c \in 1..Len(before.cells) :
            ~before.cells[c].open =>
               /\ ~frame.cells[c].open
               /\ LastOp.op # "SetUpValue" => frame.cells[c] = before.cells[c]
    /\ CalleeStepped("GetUpValue") =>
         LET c == before.upvalues[LastOp.source + 1]
         IN  ~before.cells[c].open => R(frame, LastOp.dest) = before.cells[c].value

\* A getter called after the close and after an overwrite of the register
\* still reads the value of the moment of the close.
C24_Witness ==
    /\ CalleeStepped("GetUpValue")
    /\ ~before.cells[before.upvalues[LastOp.source + 1]].open
    /\ OuterReg(frame, 0) = String(<<"a">>)
    /\ R(frame, LastOp.dest) = Integer(1)

(***************************************************************************)
(* A driver for add_offset: the Jump arm applied once, to program counters *)
(* and offsets near their extremes.  pc is the index of the instruction    *)
(* after the jumping opcode, as it is when the arm runs.                   *)
(***************************************************************************)
MaxNear == 2         \* how far the inputs spread around each extreme

PcInputs == (0..MaxNear) \cup ((32768 - MaxNear)..(32768 + MaxNear))

OffsetInputs ==
    ((-32768)..(-32768 + MaxNear)) \cup ((-MaxNear)..MaxNear)
        \cup ((32767 - MaxNear)..32767)

InitOffset ==
    /\ opcodes \in { <<[op |-> "Jump", offset |-> o, close_upvalues |-> None(0)]>> :
                       o \in OffsetInputs }
    /\ budget = 1
    /\ frame \in { [NewFrame(Nil) EXCEPT !.pc = p] : p \in PcInputs }
    /\ whole = frame
    /\ before = frame
    /\ ret = NoRet
    /\ InitLexIdle

\* `*registers.pc = add_offset(*registers.pc, offset)` of the Jump arm.
JumpAt ==
    /\ ret = NoRet
    /\ LET r == Jump(opcodes[1], frame)
       IN  /\ frame' = r.f
           /\ ret' = [kind |-> IF r.k = "panic" THEN "Panic" ELSE "Ok",
                      left |-> 0, e |-> r.e]
    /\ before' = frame
    /\ UNCHANGED <<opcodes, budget, whole>>
    /\ UNCHANGED lexvars

NextOffset == JumpAt

SpecOffset == InitOffset /\ [][NextOffset]_vars

\* The last call started at a NumericForLoop whose three registers hold
\* integers.
AtIntegerForLoop ==
    /\ Called
    /\ before.status = "running"
    /\ opcodes[before.pc + 1].op = "NumericForLoop"
    /\ \A k \in 0..2 : R(before, opcodes[before.pc + 1].base + k).t = "int"

\* C34: on the Integer path of NumericForLoop, when index + step leaves the
\* range of i64 the opcode does not abort and does not go on with a
\* wrapped index: the index is past the limit, so the loop ends (no jump,
\* base[3] left alone).
C34_OverflowEndsLoop ==
    (/\ AtIntegerForLoop
     /\ ~InRange(Anchor(R(before, 0)) + Anchor(R(before, 2)),
                 Offset(R(before, 0)) + Offset(R(before, 2))))
    => /\ ret.kind = "Ok"
       /\ FellThrough
       /\ R(frame, 3) = R(before, 3)

\* C38: for every pc and every 16-bit offset with pc + offset >= 0,
\* add_offset(pc, offset) is pc + offset, for offset = -32768 with
\* pc >= 32768 and for offset = 0 as well.
C38_AddOffset ==
    (Called /\ before.pc + opcodes[1].offset >= 0)
    => /\ ret.kind = "Ok"
       /\ frame.pc = before.pc + opcodes[1].offset

(***************************************************************************)
(* The lexer's byte constants.                                             *)
(***************************************************************************)
SPACE == 32
NEWLINE == 10
CARRIAGE_RETURN == 13
HORIZONTAL_TAB == 9
ALERT_BEEP == 7
BACKSPACE == 8
VERTICAL_TAB == 11
FORM_FEED == 12
LEFT_BRACKET == 91
RIGHT_BRACKET == 93
LEFT_BRACE == 123
RIGHT_BRACE == 125
EQUALS == 61
LESS_THAN == 60
GREATER_THAN == 62
FORWARD_SLASH == 47
BACKSLASH == 92
TILDE == 126
COLON == 58
DOUBLE_QUOTE == 34
SINGLE_QUOTE == 39
PERIOD == 46
PLUS == 43
MINUS == 45
ASTERISK == 42
CARET == 94
PERCENT == 37
AMPERSAND == 38
OCTOTHORPE == 35
PIPE == 124
UNDERSCORE == 95
LOWER_A == 97
LOWER_B == 98
LOWER_F == 102
LOWER_N == 110
LOWER_R == 114
LOWER_T == 116
LOWER_U == 117
LOWER_V == 118
LOWER_X == 120
LOWER_Z == 122
UPPER_A == 65
UPPER_F == 70
UPPER_Z == 90
NUM_0 == 48
NUM_9 == 57

\* RESERVED_WORDS: the bytes of each keyword and its token.
RESERVED_WORDS ==
    { <<<<98, 114, 101, 97, 107>>, "Break">>,
      <<<<100, 111>>, "Do">>,
      <<<<101, 108, 115, 101>>, "Else">>,
      <<<<101, 108, 115, 101, 105, 102>>, "ElseIf">>,
      <<<<101, 110, 100>>, "End">>,
      <<<<102, 117, 110, 99, 116, 105, 111, 110>>, "Function">>,
      <<<<103, 111, 116, 111>>, "Goto">>,
      <<<<105, 102>>, "If">>,
      <<<<105, 110>>, "In">>,
      <<<<108, 111, 99, 97, 108>>, "Local">>,
      <<<<110, 105, 108>>, "Nil">>,
      <<<<102, 111, 114>>, "For">>,
      <<<<119, 104, 105, 108, 101>>, "While">>,
      <<<<114, 101, 112, 101, 97, 116>>, "Repeat">>,
      <<<<117, 110, 116, 105, 108>>, "Until">>,
      <<<<114, 101, 116, 117, 114, 110>>, "Return">>,
      <<<<116, 104, 101, 110>>, "Then">>,
      <<<<116, 114, 117, 101>>, "True">>,
      <<<<102, 97, 108, 115, 101>>, "False">>,
      <<<<110, 111, 116>>, "Not">>,
      <<<<97, 110, 100>>, "And">>,
      <<<<111, 114>>, "Or">> }

\* SINGLE_CHAR_TOKENS: tokens of one byte that start no longer token.
SINGLE_CHAR_TOKENS ==
    { <<PLUS, "Plus">>,
      <<MINUS, "Minus">>,
      <<ASTERISK, "Times">>,
      <<CARET, "Pow">>,
      <<PERCENT, "Mod">>,
      <<AMPERSAND, "BitAnd">>,
      <<PIPE, "BitOr">>,
      <<OCTOTHORPE, "Len">>,
      <<RIGHT_BRACKET, "RightBracket">>,
      <<LEFT_BRACE, "LeftBrace">>,
      <<RIGHT_BRACE, "RightBrace">> }

(***************************************************************************)
(* The byte stream (stream::Stream) and the lexer's cursor.                *)
(* A cursor st is [pos, line, out]: bytes consumed, LexerState::line_number *)
(* and the output buffer handed to lex.                                    *)
(***************************************************************************)
\* What peek yields past the end of the input (None).
NoByte == -1

peek(s, st, k) == IF st.pos + k < Len(s) THEN s[st.pos + k + 1] ELSE NoByte
advance(st, n) == [st EXCEPT !.pos = @ + n]
push(st, b)    == [st EXCEPT !.out = Append(@, b)]

\* `if let Some(o) = output.as_mut() { o.push(b) }`
push_if(st, with_output, b) == IF with_output THEN push(st, b) ELSE st

is_newline(c) == c = NEWLINE \/ c = CARRIAGE_RETURN

is_space(c) ==
    c = SPACE \/ c = HORIZONTAL_TAB \/ c = VERTICAL_TAB \/ c = FORM_FEED \/ is_newline(c)

is_alpha(c) ==
    \/ (c >= LOWER_A /\ c <= LOWER_Z)
    \/ (c >= UPPER_A /\ c <= UPPER_Z)
    \/ c = UNDERSCORE

from_digit(c) == IF c >= NUM_0 /\ c <= NUM_9 THEN c - NUM_0 ELSE NoByte

is_digit(c) == from_digit(c) # NoByte

from_hex_digit(c) ==
    IF c >= NUM_0 /\ c <= NUM_9 THEN c - NUM_0
    ELSE IF c >= LOWER_A /\ c <= LOWER_F THEN 10 + c - LOWER_A
    ELSE IF c >= UPPER_A /\ c <= UPPER_F THEN 10 + c - UPPER_A
    ELSE NoByte

\* Outcome of a lexer routine: k is "ok", "err" or "panic"; tok is the token
\* lex produced ("None" for no token); begin is the offset at which a
\* construct that failed inside skip_whitespace began.
LOk(st)       == [k |-> "ok",    st |-> st, msg |-> "", begin |-> 0, tok |-> "None"]
LErr(st, msg) == [k |-> "err",   st |-> st, msg |-> msg, begin |-> 0, tok |-> "None"]
LPanic(st)    == [k |-> "panic", st |-> st, msg |-> "", begin |-> 0, tok |-> "None"]
LTok(st, tok) == [k |-> "ok",    st |-> st, msg |-> "", begin |-> 0, tok |-> tok]

(***************************************************************************)
(* LexerState::line_end                                                    *)
(***************************************************************************)
\* Any newline byte taken as the second byte of the sequence.
pairs_with_any(newline, next_newline) == is_newline(next_newline)

\* The second byte is consumed when it is a newline byte of the other kind.
pairs_with(newline, next_newline) ==
    is_newline(next_newline) /\ next_newline # newline

line_end(s, st, with_output) ==
    LET newline      == peek(s, st, 0)
        a            == push_if(advance(st, 1), with_output, newline)
        next_newline == peek(s, a, 0)
        b            == IF pairs_with(newline, next_newline)
                        THEN push_if(advance(a, 1), with_output, next_newline)
                        ELSE a
    IN  [b EXCEPT !.line = @ + 1]

(***************************************************************************)
(* LexerState::long_string and LexerState::comment                         *)
(***************************************************************************)
\* `while peek(0) == Some(EQUALS) { advance(1); n += 1 }` from offset p.
RECURSIVE equals_run(_, _)
equals_run(s, p) ==
    IF p < Len(s) /\ s[p + 1] = EQUALS THEN 1 + equals_run(s, p + 1) ELSE 0

\* An invalid close delimiter that leaves no trace in the output.
push_close_dropped(st, with_output, close_sep_length) == st

\* "we need to add the invalid close delimiter to the output": the `]` and
\* the `=`s that were consumed.
push_close(st, with_output, close_sep_length) ==
    IF with_output
    THEN [st EXCEPT !.out = @ \o <<RIGHT_BRACKET>>
                        \o [i \in 1..close_sep_length |-> EQUALS]]
    ELSE st

RECURSIVE long_string_body(_, _, _, _)
long_string_body(s, st, open_sep_length, with_output) ==
    LET c == peek(s, st, 0)
    IN  IF c = NoByte THEN LErr(st, "unfinished long string")
        ELSE IF c = NEWLINE \/ c = CARRIAGE_RETURN
        THEN long_string_body(s, line_end(s, st, with_output),
                              open_sep_length, with_output)
        ELSE IF c = RIGHT_BRACKET
        THEN LET a == advance(st, 1)
                 close_sep_length == equals_run(s, a.pos)
                 b == advance(a, close_sep_length)
             IN  IF open_sep_length = close_sep_length
                    /\ peek(s, b, 0) = RIGHT_BRACKET
                 THEN LOk(advance(b, 1))
                 ELSE long_string_body(s,
                        push_close(b, with_output, close_sep_length),
                        open_sep_length, with_output)
        ELSE long_string_body(s, advance(push_if(st, with_output, c), 1),
                              open_sep_length, with_output)

long_string(s, st, with_output) ==
    LET a == advance(st, 1)
        open_sep_length == equals_run(s, a.pos)
        b == advance(a, open_sep_length)
    IN  IF peek(s, b, 0) # LEFT_BRACKET
        THEN LErr(b, "invalid long string delimiter")
        ELSE long_string_body(s, advance(b, 1), open_sep_length, with_output)

\* The short comment's loop: up to, not including, the next newline byte.
RECURSIVE short_comment(_, _)
short_comment(s, st) ==
    LET c == peek(s, st, 0)
    IN  IF c = NoByte \/ is_newline(c) THEN st
        ELSE short_comment(s, advance(st, 1))

comment(s, st) ==
    LET a == advance(st, 2)
    IN  IF peek(s, a, 0) = LEFT_BRACKET
        THEN long_string(s, a, FALSE)
        ELSE LOk(short_comment(s, a))

(***************************************************************************)
(* LexerState::skip_whitespace                                             *)
(***************************************************************************)
\* skip_whitespace that skips nothing.
skip_whitespace_none(s, st) == LOk(st)

RECURSIVE skip_whitespace(_, _)
skip_whitespace(s, st) ==
    LET c == peek(s, st, 0)
    IN  IF c = SPACE \/ c = HORIZONTAL_TAB \/ c = VERTICAL_TAB \/ c = FORM_FEED
        THEN skip_whitespace(s, advance(st, 1))
        ELSE IF c = NEWLINE \/ c = CARRIAGE_RETURN
        THEN skip_whitespace(s, line_end(s, st, FALSE))
        ELSE IF c = MINUS /\ peek(s, st, 1) = MINUS
        THEN LET r == comment(s, st)
             IN  IF r.k = "ok" THEN skip_whitespace(s, r.st)
                 ELSE [r EXCEPT !.begin = st.pos]
        ELSE LOk(st)

(***************************************************************************)
(* LexerState::short_string                                                *)
(***************************************************************************)
\* The escapes that stand for one fixed byte.
simple_escapes ==
    { <<LOWER_A, ALERT_BEEP>>, <<LOWER_B, BACKSPACE>>, <<LOWER_F, FORM_FEED>>,
      <<LOWER_N, NEWLINE>>, <<LOWER_R, CARRIAGE_RETURN>>,
      <<LOWER_T, HORIZONTAL_TAB>>, <<LOWER_V, VERTICAL_TAB>>,
      <<BACKSLASH, BACKSLASH>>, <<SINGLE_QUOTE, SINGLE_QUOTE>>,
      <<DOUBLE_QUOTE, DOUBLE_QUOTE>> }

\* A u32 kept as two 16-bit halves; `(u << 4) | h` in 32 bits.
U32Zero == [hi |-> 0, lo |-> 0]
shl4_or(u, h) ==
    [hi |-> (u.hi * 16 + (u.lo \div 4096)) % 65536,
     lo |-> ((u.lo % 4096) * 16) + h]

\* char::from_u32: at most 0x10FFFF and no surrogate.
is_scalar(u) ==
    /\ u.hi <= 16
    /\ ~(u.hi = 0 /\ u.lo >= 55296 /\ u.lo <= 57343)

\* char::encode_utf8 of the scalar value v.
encode_utf8(v) ==
    IF v < 128 THEN <<v>>
    ELSE IF v < 2048 THEN <<192 + (v \div 64), 128 + (v % 64)>>
    ELSE IF v < 65536
    THEN <<224 + (v \div 4096), 128 + ((v \div 64) % 64), 128 + (v % 64)>>
    ELSE <<240 + (v \div 262144), 128 + ((v \div 4096) % 64),
           128 + ((v \div 64) % 64), 128 + (v % 64)>>

\* The loop of `\u{`: hex digits up to the closing brace.
RECURSIVE unicode_escape(_, _, _)
unicode_escape(s, st, u) ==
    LET c == peek(s, st, 0)
    IN  IF c = NoByte THEN LErr(st, "missing '}'")
        ELSE IF c = RIGHT_BRACE
        THEN IF is_scalar(u)
             THEN LOk([advance(st, 1) EXCEPT
                         !.out = @ \o encode_utf8(u.hi * 65536 + u.lo)])
             ELSE LErr(advance(st, 1), "invalid UTF-8 value")
        ELSE IF from_hex_digit(c) # NoByte
        THEN unicode_escape(s, advance(st, 1), shl4_or(u, from_hex_digit(c)))
        ELSE LErr(st, "missing '}'")

\* `\z` that skips nothing.
skip_z_nothing(s, st) == st

\* The loop of `\z`: the following run of whitespace.
RECURSIVE skip_z(_, _)
skip_z(s, st) ==
    LET c == peek(s, st, 0)
    IN  IF is_newline(c) THEN skip_z(s, line_end(s, st, FALSE))
        ELSE IF is_space(c) THEN skip_z(s, advance(st, 1))
        ELSE st

\* A decimal escape of exactly one digit.
decimal_escape_one_digit(s, st, u, n) ==
    LOk(push(advance(st, 1), from_digit(peek(s, st, 0))))

\* `for _ in 0..3`: at most n more decimal digits, accumulated in u.
RECURSIVE decimal_escape(_, _, _, _)
decimal_escape(s, st, u, n) ==
    LET d == from_digit(peek(s, st, 0))
    IN  IF n = 0 \/ d = NoByte
        THEN IF u > 255 THEN LErr(st, "decimal escape too large")
             ELSE LOk(push(st, u))
        ELSE decimal_escape(s, advance(st, 1), 10 * u + d, n - 1)

\* The arm taken after a backslash; st is past the backslash.
escape(s, st) ==
    LET c == peek(s, st, 0)
    IN  IF c = NoByte THEN LErr(st, "unfinished short string")
        ELSE IF \E e \in simple_escapes : e[1] = c
        THEN LOk(push(advance(st, 1),
                      (CHOOSE e \in simple_escapes : e[1] = c)[2]))
        ELSE IF c = NEWLINE \/ c = CARRIAGE_RETURN
        THEN LOk(line_end(s, st, TRUE))
        ELSE IF c = LOWER_X
        THEN LET a      == advance(st, 1)
                 first  == from_hex_digit(peek(s, a, 0))
                 second == from_hex_digit(peek(s, a, 1))
             IN  IF first = NoByte \/ second = NoByte
                 THEN LErr(a, "hexadecimal digit expected")
                 ELSE LOk(advance(push(a, first * 16 + second), 2))
        ELSE IF c = LOWER_U
        THEN IF peek(s, st, 1) # LEFT_BRACE THEN LErr(st, "missing '{'")
             ELSE unicode_escape(s, advance(st, 2), U32Zero)
        ELSE IF c = LOWER_Z THEN LOk(skip_z(s, advance(st, 1)))
        ELSE IF is_digit(c) THEN decimal_escape(s, st, 0, 3)
        ELSE LErr(st, "invalid escape sequence")

RECURSIVE short_string_body(_, _, _)
short_string_body(s, st, start_quote) ==
    LET c == peek(s, st, 0)
    IN  IF c = NoByte \/ is_newline(c) THEN LErr(st, "unfinished short string")
        ELSE IF c = BACKSLASH
        THEN LET r == escape(s, advance(st, 1))
             IN  IF r.k = "ok" THEN short_string_body(s, r.st, start_quote)
                 ELSE r
        ELSE IF c = start_quote THEN LOk(advance(st, 1))
        ELSE short_string_body(s, push(advance(st, 1), c), start_quote)

\* A short string that a single quote closes, whichever quote opened it.
short_string_single_quote(s, st) ==
    short_string_body(s, advance(st, 1), SINGLE_QUOTE)

short_string(s, st) == short_string_body(s, advance(st, 1), peek(s, st, 0))

(***************************************************************************)
(* LexerState::lex and Lexer::next                                         *)
(***************************************************************************)
\* `advance(1)`, then one more byte when it is `second`: the tokens with a
\* longer form (== << <= >> >= // ~= ::).
one_or_two(s, st, second, long, short) ==
    LET a == advance(st, 1)
    IN  IF peek(s, a, 0) = second THEN LTok(advance(a, 1), long)
        ELSE LTok(a, short)

\* The number of name bytes (alpha or digit) from offset p on.
RECURSIVE name_run(_, _)
name_run(s, p) ==
    IF p < Len(s) /\ (is_alpha(s[p + 1]) \/ is_digit(s[p + 1]))
    THEN 1 + name_run(s, p + 1) ELSE 0

\* The arm of a name or reserved word: st.out receives the bytes.
name(s, st) ==
    LET n == 1 + name_run(s, st.pos + 1)
        a == [st EXCEPT !.pos = @ + n,
                        !.out = @ \o SubSeq(s, st.pos + 1, st.pos + n)]
    IN  IF \E w \in RESERVED_WORDS : w[1] = a.out
        THEN LTok(a, (CHOOSE w \in RESERVED_WORDS : w[1] = a.out)[2])
        ELSE LTok(a, "Name")

\* numeral() is unimplemented!(): reaching it aborts.
numeral(s, st) == LPanic(st)

\* The PERIOD arm.
period(s, st) ==
    IF peek(s, st, 1) = PERIOD
    THEN IF peek(s, st, 2) = PERIOD
         THEN LTok(advance(st, 3), "Dots")
         ELSE LTok(advance(st, 2), "Concat")
    ELSE IF is_digit(peek(s, st, 1)) THEN numeral(s, st)
         ELSE LTok(st, "Dot")                  \* no advance in this arm

\* SINGLE_CHAR_TOKEN_MAP.get(&c)
single_char_token(c) ==
    IF \E e \in SINGLE_CHAR_TOKENS : e[1] = c
    THEN (CHOOSE e \in SINGLE_CHAR_TOKENS : e[1] = c)[2]
    ELSE "None"

lex(s, st) ==
    LET c == peek(s, st, 0)
    IN  IF c = NoByte THEN LOk(st)
        ELSE IF c = SPACE \/ c = HORIZONTAL_TAB \/ c = VERTICAL_TAB \/ c = FORM_FEED
        THEN LOk(advance(st, 1))
        ELSE IF c = NEWLINE \/ c = CARRIAGE_RETURN
        THEN LOk(line_end(s, st, FALSE))
        ELSE IF c = MINUS
        THEN IF peek(s, st, 1) # MINUS THEN LTok(advance(st, 1), "Minus")
             ELSE comment(s, st)
        ELSE IF c = LEFT_BRACKET
        THEN IF peek(s, st, 1) = EQUALS \/ peek(s, st, 1) = LEFT_BRACKET
             THEN LET r == long_string(s, st, TRUE)
                  IN  IF r.k = "ok" THEN LTok(r.st, "String") ELSE r
             ELSE LTok(advance(st, 1), "LeftBracket")
        ELSE IF c = EQUALS THEN one_or_two(s, st, EQUALS, "Equal", "Assign")
        ELSE IF c = LESS_THAN
        THEN IF peek(s, st, 1) = EQUALS THEN LTok(advance(st, 2), "LessEqual")
             ELSE one_or_two(s, st, LESS_THAN, "ShiftLeft", "Less")
        ELSE IF c = GREATER_THAN
        THEN IF peek(s, st, 1) = EQUALS THEN LTok(advance(st, 2), "GreaterEqual")
             ELSE one_or_two(s, st, GREATER_THAN, "ShiftRight", "Greater")
        ELSE IF c = FORWARD_SLASH
        THEN one_or_two(s, st, FORWARD_SLASH, "IDiv", "Div")
        ELSE IF c = TILDE THEN one_or_two(s, st, EQUALS, "NotEqual", "BitNot")
        ELSE IF c = COLON THEN one_or_two(s, st, COLON, "DoubleColon", "Colon")
        ELSE IF c = DOUBLE_QUOTE \/ c = SINGLE_QUOTE
        THEN LET r == short_string(s, st)
             IN  IF r.k = "ok" THEN LTok(r.st, "String") ELSE r
        ELSE IF c = PERIOD THEN period(s, st)
        ELSE IF is_digit(c) THEN numeral(s, st)
        ELSE IF single_char_token(c) # "None"
        THEN LTok(advance(st, 1), single_char_token(c))
        ELSE IF is_alpha(c) THEN name(s, st)
        ELSE LErr(st, "unexpected character")

\* The error context: with_context attaches the line to errors of lex only.
NoLine == -1

\* token_line reading the line number before skip_whitespace runs.
token_line_at_call(line_at_call, line_after_skip) == line_at_call

\* `let line_number = self.lexer_state.line_number`, read after
\* skip_whitespace; line_at_call is the line number when next was called.
token_line(line_at_call, line_after_skip) == line_after_skip

\* The output buffer kept from the call before.
clear_kept(st) == st

\* `self.output_buffer.clear()`
clear(st) == [st EXCEPT !.out = <<>>]

\* What next returns (kind is "Next", "End", "Err" or "Panic"), with the
\* cursor it leaves and the offset at which lex started.
next(s, st) ==
    LET w == skip_whitespace(s, st)
    IN  IF w.k = "err"
        THEN [st |-> w.st, at |-> w.st.pos,
              res |-> [kind |-> "Err", tok |-> "None", payload |-> <<>>,
                       line |-> NoLine, msg |-> w.msg, begin |-> w.begin]]
        ELSE
          LET line == token_line(st.line, w.st.line)
              r    == lex(s, clear(w.st))
          IN  [st |-> r.st, at |-> w.st.pos,
               res |->
                 IF r.k = "panic"
                 THEN [kind |-> "Panic", tok |-> "None", payload |-> <<>>,
                       line |-> NoLine, msg |-> "", begin |-> w.st.pos]
                 ELSE IF r.k = "err"
                 THEN [kind |-> "Err", tok |-> "None", payload |-> <<>>,
                       line |-> line, msg |-> r.msg, begin |-> w.st.pos]
                 ELSE IF r.tok = "None"
                 THEN [kind |-> "End", tok |-> "None", payload |-> <<>>,
                       line |-> NoLine, msg |-> "", begin |-> w.st.pos]
                 ELSE [kind |-> "Next", tok |-> r.tok,
                       payload |-> IF r.tok \in {"Name", "String"}
                                   THEN r.st.out ELSE <<>>,
                       line |-> line, msg |-> "", begin |-> w.st.pos]]

(***************************************************************************)
(* The lexer's specification: a caller that keeps asking for tokens.       *)
(***************************************************************************)
MaxChunks   == 5     \* fragments per generated source
MaxShortLen == 3     \* bytes per generated short source

\* Pieces of source text the longer generated sources are put together from.
Fragments ==
    { <<LOWER_A>>, <<NEWLINE>>, <<CARRIAGE_RETURN>>,
      <<MINUS, MINUS>>, <<LEFT_BRACKET, LEFT_BRACKET>>,
      <<RIGHT_BRACKET, RIGHT_BRACKET>>, <<DOUBLE_QUOTE>>,
      <<BACKSLASH>>, <<BACKSLASH, LOWER_Z>> }

\* The bytes `(`, `)`, `;` and `,`, which lexer.rs does not name.
LEFT_PAREN  == 40
RIGHT_PAREN == 41
SEMICOLON   == 59
COMMA       == 44

\* The first bytes of the punctuation of the token set.
Punctuation ==
    { PLUS, MINUS, ASTERISK, FORWARD_SLASH, PERCENT, CARET, AMPERSAND, PIPE,
      TILDE, LESS_THAN, GREATER_THAN, OCTOTHORPE, EQUALS,
      LEFT_PAREN, RIGHT_PAREN, LEFT_BRACE, RIGHT_BRACE,
      LEFT_BRACKET, RIGHT_BRACKET, COLON, SEMICOLON, COMMA, PERIOD }

\* The bytes of the short generated sources.
Alphabet == Punctuation \cup {LOWER_A, NUM_0 + 1}

\* Every source of at most n fragments.
RECURSIVE ChunkInputs(_)
ChunkInputs(n) ==
    IF n = 0 THEN {<<>>}
    ELSE LET shorter == ChunkInputs(n - 1)
         IN  shorter \cup { f \o t : f \in Fragments, t \in shorter }

\* Every source of 1..n bytes of the alphabet.
RECURSIVE ShortInputs(_)
ShortInputs(n) ==
    IF n = 0 THEN {<<>>}
    ELSE LET shorter == ShortInputs(n - 1)
         IN  shorter \cup { <<b>> \o t : b \in Alphabet, t \in shorter }

InitVmIdle ==
    /\ opcodes = <<FinalReturn>>
    /\ budget = 1
    /\ frame = NewFrame(Nil)
    /\ whole = frame
    /\ before = frame
    /\ ret = NoRet

NoResult ==
    [kind |-> "None", tok |-> "None", payload |-> <<>>, line |-> NoLine,
     msg |-> "", begin |-> 0]

\* Lexer::new, over a source put together from fragments.
InitLex ==
    /\ stream \in ChunkInputs(MaxChunks)
    /\ pos = 0
    /\ line_number = 0
    /\ output_buffer = <<>>
    /\ result = NoResult
    /\ tok_start = 0
    /\ call_pos = 0
    /\ InitVmIdle

\* The caller calls Lexer::next.
LexNext ==
    /\ result.kind # "Panic"
    /\ LET r == next(stream, [pos |-> pos, line |-> line_number,
                              out |-> output_buffer])
       IN  /\ pos' = r.st.pos
           /\ line_number' = r.st.line
           /\ output_buffer' = r.st.out
           /\ result' = r.res
           /\ tok_start' = r.at
    /\ call_pos' = pos
    /\ UNCHANGED stream
    /\ UNCHANGED vmvars

NextLex == LexNext

SpecLex == InitLex /\ [][NextLex]_vars

\* Lexer::new, over a short source of punctuation, letters and digits.
InitLexShort ==
    /\ stream \in ShortInputs(MaxShortLen)
    /\ pos = 0
    /\ line_number = 0
    /\ output_buffer = <<>>
    /\ result = NoResult
    /\ tok_start = 0
    /\ call_pos = 0
    /\ InitVmIdle

SpecLexShort == InitLexShort /\ [][NextLex]_vars

\* Sources for strings and comments: an opener and a body of a few bytes.
MaxBodyLen == 4      \* bytes after the opener

Openers ==
    { <<>>,
      <<LEFT_BRACKET, LEFT_BRACKET>>,
      <<LEFT_BRACKET, EQUALS, LEFT_BRACKET>>,
      <<MINUS, MINUS>>,
      <<MINUS, MINUS, LEFT_BRACKET>>,
      <<MINUS, MINUS, LEFT_BRACKET, EQUALS>>,
      <<MINUS, MINUS, LEFT_BRACKET, LEFT_BRACKET>>,
      <<MINUS, MINUS, LEFT_BRACKET, EQUALS, LEFT_BRACKET>>,
      <<DOUBLE_QUOTE>> }

BodyBytes ==
    { LOWER_A, RIGHT_BRACKET, EQUALS, NEWLINE, CARRIAGE_RETURN,
      SINGLE_QUOTE, DOUBLE_QUOTE }

\* Every body of at most n bytes.
RECURSIVE BodyInputs(_)
BodyInputs(n) ==
    IF n = 0 THEN {<<>>}
    ELSE LET shorter == BodyInputs(n - 1)
         IN  shorter \cup { <<b>> \o t : b \in BodyBytes, t \in shorter }

\* Lexer::new, over an opener followed by a body.
InitLexLong ==
    /\ stream \in { o \o b : o \in Openers, b \in BodyInputs(MaxBodyLen) }
    /\ pos = 0
    /\ line_number = 0
    /\ output_buffer = <<>>
    /\ result = NoResult
    /\ tok_start = 0
    /\ call_pos = 0
    /\ InitVmIdle

SpecLexLong == InitLexLong /\ [][NextLex]_vars

\* Sources for escapes in short strings: a quoted body of a few fragments,
\* and `\u{...}` with a few hex digits.
MaxEscLen == 5       \* fragments between the quotes
MaxHexLen == 9       \* hex digits between the braces

ZFragments ==
    { <<BACKSLASH, LOWER_Z>>, <<SPACE>>, <<NEWLINE>>, <<CARRIAGE_RETURN>>,
      <<LOWER_A>> }

DecFragments ==
    { <<BACKSLASH>>, <<NUM_0 + 2>>, <<NUM_0 + 5>>, <<NUM_0 + 6>>, <<LOWER_A>> }

HexFragments == { <<NUM_0>>, <<NUM_0 + 1>>, <<UPPER_A + 3>> }

\* What may follow the closing quote: nothing, whitespace, a comment, a
\* comment and a name on the next line.
Tails ==
    { <<>>,
      <<SPACE, HORIZONTAL_TAB>>,
      <<SPACE, MINUS, MINUS, LOWER_A>>,
      <<SPACE, MINUS, MINUS, LOWER_A, NEWLINE, LOWER_A>> }

\* Every concatenation of at most n fragments of the set frags.
RECURSIVE FragmentInputs(_, _)
FragmentInputs(frags, n) ==
    IF n = 0 THEN {<<>>}
    ELSE LET shorter == FragmentInputs(frags, n - 1)
         IN  shorter \cup { f \o t : f \in frags, t \in shorter }

EscInputs ==
    { <<DOUBLE_QUOTE>> \o b \o <<DOUBLE_QUOTE>> \o t :
        b \in FragmentInputs(ZFragments, MaxEscLen), t \in Tails }
    \cup { <<DOUBLE_QUOTE>> \o b \o <<DOUBLE_QUOTE>> :
        b \in FragmentInputs(DecFragments, MaxEscLen) }
    \cup { <<DOUBLE_QUOTE, BACKSLASH, LOWER_U, LEFT_BRACE>> \o d
            \o <<RIGHT_BRACE, DOUBLE_QUOTE>> :
        d \in FragmentInputs(HexFragments, MaxHexLen) }

\* Lexer::new, over a short string with escapes.
InitLexEsc ==
    /\ stream \in EscInputs
    /\ pos = 0
    /\ line_number = 0
    /\ output_buffer = <<>>
    /\ result = NoResult
    /\ tok_start = 0
    /\ call_pos = 0
    /\ InitVmIdle

SpecLexEsc == InitLexEsc /\ [][NextLex]_vars

(***************************************************************************)
(* Vocabulary of the lexer's properties.                                   *)
(***************************************************************************)
LexCalled == result.kind # "None"

\* The byte k places after the one lex started at in the last call.
ByteAt(k) ==
    IF tok_start + k < Len(stream) THEN stream[tok_start + k + 1] ELSE NoByte

\* The number of newline sequences among the first n bytes of s, from
\* offset i on: a newline byte, with the next byte when that is the other
\* newline byte, is one sequence.
RECURSIVE newline_sequences(_, _, _)
newline_sequences(s, i, n) ==
    IF i >= n THEN 0
    ELSE IF s[i + 1] \in {NEWLINE, CARRIAGE_RETURN}
    THEN IF i + 1 < Len(s) /\ s[i + 2] \in {NEWLINE, CARRIAGE_RETURN}
            /\ s[i + 2] # s[i + 1]
         THEN 1 + newline_sequences(s, i + 2, n)
         ELSE 1 + newline_sequences(s, i + 1, n)
    ELSE newline_sequences(s, i + 1, n)

\* The 0-origin line on which the byte at offset n lies.
LineOf(n) == newline_sequences(stream, 0, n)

\* C6: a call of next that returns a token has consumed at least one byte,
\* so that repeated calls reach End or an error.
C6_TokenConsumesByte ==
    result.kind = "Next" => pos > call_pos

\* C7: a `.` not followed by a digit or a `.` is one Dot token of one byte,
\* `..` is one Concat token of two bytes and `...` one Dots token of three
\* bytes, the next token starting at the byte after them.
C7_DotTokens ==
    (LexCalled /\ ByteAt(0) = PERIOD) =>
        IF ByteAt(1) = PERIOD /\ ByteAt(2) = PERIOD
        THEN result.kind = "Next" /\ result.tok = "Dots" /\ pos = tok_start + 3
        ELSE IF ByteAt(1) = PERIOD
        THEN result.kind = "Next" /\ result.tok = "Concat" /\ pos = tok_start + 2
        ELSE ByteAt(1) \notin NUM_0..NUM_9 =>
               result.kind = "Next" /\ result.tok = "Dot" /\ pos = tok_start + 1

\* C8: every punctuation symbol of the token set, `(`, `)`, `;` and `,`
\* included, yields a token (a `[` or `.` that opens a long string or a
\* numeral aside).
C8_PunctuationAccepted ==
    (/\ LexCalled
     /\ ByteAt(0) \in Punctuation
     /\ ~(ByteAt(0) = LEFT_BRACKET /\ ByteAt(1) \in {LEFT_BRACKET, EQUALS})
     /\ ~(ByteAt(0) = PERIOD /\ ByteAt(1) \in NUM_0..NUM_9))
    => result.kind = "Next"

\* C9: the line number returned with a token is the 0-origin line of the
\* token's first byte: the number of newline sequences before that byte.
C9_TokenLine ==
    result.kind = "Next" => result.line = LineOf(tok_start)

C9_Witness ==
    /\ result.kind = "Next" /\ result.tok = "Name"
    /\ stream[1] = DOUBLE_QUOTE
    /\ result.line = 1
    /\ tok_start >= 4

\* C10: every error next returns carries the line on which the failing
\* token or construct (a comment included) started.
C10_ErrorLine ==
    result.kind = "Err" => result.line = LineOf(result.begin)

\* C11: a source that starts a decimal literal (a digit first, no fraction
\* and no exponent following) lexes to an Integer or a Number token: the
\* call returns a token and does not abort.
C11_NumeralLexes ==
    (LexCalled /\ ByteAt(0) \in NUM_0..NUM_9) =>
        /\ result.kind = "Next"
        /\ result.tok \in {"Integer", "Number"}

(***************************************************************************)
(* Vocabulary of the properties of newlines, long brackets and strings.    *)
(***************************************************************************)
\* The byte at offset i of the stream.
At(i) == IF i >= 0 /\ i < Len(stream) THEN stream[i + 1] ELSE NoByte

\* lex ran in the last call: the call did not fail inside skip_whitespace.
LexRan == LexCalled /\ ~(result.kind = "Err" /\ result.line = NoLine)

\* A long-bracket opening / closing of level k stands at offset p.
OpensAt(p, k) ==
    /\ At(p) = LEFT_BRACKET
    /\ \A i \in 1..k : At(p + i) = EQUALS
    /\ At(p + k + 1) = LEFT_BRACKET
ClosesAt(p, k) ==
    /\ At(p) = RIGHT_BRACKET
    /\ \A i \in 1..k : At(p + i) = EQUALS
    /\ At(p + k + 1) = RIGHT_BRACKET

\* The level of the complete opening at offset p, -1 when there is none.
OpenLevel(p) ==
    IF \E k \in 0..Len(stream) : OpensAt(p, k)
    THEN CHOOSE k \in 0..Len(stream) : OpensAt(p, k)
    ELSE -1

\* The offset of the first body byte of the long bracket opened at p.
BodyStart(p) == p + OpenLevel(p) + 2

\* The offset of the first closing of level k at or after offset b, -1 when
\* there is none.
FirstClose(b, k) ==
    IF \E e \in b..Len(stream) : ClosesAt(e, k)
    THEN CHOOSE e \in b..Len(stream) :
            ClosesAt(e, k) /\ \A d \in b..(e - 1) : ~ClosesAt(d, k)
    ELSE -1

\* The bytes at offsets from..(to - 1).
Bytes(from, to) == SubSeq(stream, from + 1, to)

HasNewline(seq) == \E i \in 1..Len(seq) : seq[i] \in {NEWLINE, CARRIAGE_RETURN}

\* The offset of the first newline byte at or after p, the length of the
\* stream when there is none.
LineEndFrom(p) ==
    CHOOSE i \in p..Len(stream) :
        /\ i = Len(stream) \/ At(i) \in {NEWLINE, CARRIAGE_RETURN}
        /\ \A j \in p..(i - 1) : At(j) \notin {NEWLINE, CARRIAGE_RETURN}

\* The length of the newline sequence starting seq (0 when none does).
LeadingNewline(seq) ==
    IF seq = <<>> \/ seq[1] \notin {NEWLINE, CARRIAGE_RETURN} THEN 0
    ELSE IF Len(seq) >= 2 /\ seq[2] \in {NEWLINE, CARRIAGE_RETURN} /\ seq[2] # seq[1]
    THEN 2 ELSE 1

\* seq with every newline sequence replaced by one NEWLINE byte.
RECURSIVE Normalised(_)
Normalised(seq) ==
    IF seq = <<>> THEN <<>>
    ELSE IF LeadingNewline(seq) > 0
    THEN <<NEWLINE>> \o Normalised(SubSeq(seq, LeadingNewline(seq) + 1, Len(seq)))
    ELSE <<seq[1]>> \o Normalised(SubSeq(seq, 2, Len(seq)))

\* The last call returned a long string token; its body lies between the
\* opening at tok_start and the closing that ends at pos.
LongStringToken ==
    result.kind = "Next" /\ result.tok = "String" /\ OpenLevel(tok_start) >= 0
TokenBody ==
    Bytes(BodyStart(tok_start), pos - OpenLevel(tok_start) - 2)

\* C25: line_end consumes the newline byte it stands on, and a second byte
\* exactly when that is the newline byte of the other kind, and adds one to
\* the line number: the line number always is the number of newline
\* sequences consumed (`\n\r` one line, `\n\n` two).
C25_LineEnd ==
    /\ \A p \in 0..(Len(stream) - 1) :
          At(p) \in {NEWLINE, CARRIAGE_RETURN} =>
             LET r == line_end(stream,
                        [pos |-> p, line |-> line_number, out |-> <<>>], FALSE)
             IN  /\ r.line = line_number + 1
                 /\ r.pos = p + (IF At(p + 1) \in {NEWLINE, CARRIAGE_RETURN} \ {At(p)}
                                 THEN 2 ELSE 1)
    /\ line_number = LineOf(pos)

C25_Witness ==
    /\ result.kind = "Next" /\ result.tok = "Name"
    /\ stream = <<NEWLINE, CARRIAGE_RETURN, CARRIAGE_RETURN, LOWER_A>>
    /\ tok_start = 3
    /\ line_number = 2

\* C26: a `--` that no complete long-bracket opening follows starts a short
\* comment: the call skips to the end of the line and the comment raises no
\* error (also for `--[` and `--[=` before a byte that is not `[`).
C26_ShortCommentFallback ==
    (/\ LexCalled
     /\ At(call_pos) = MINUS /\ At(call_pos + 1) = MINUS
     /\ OpenLevel(call_pos + 2) < 0)
    => /\ ~(result.kind = "Err" /\ result.begin = call_pos)
       /\ tok_start >= LineEndFrom(call_pos + 2)

\* C27: a long string of level k ends at the first `]`, k `=`, `]` after its
\* opening, and what lies before it, close-bracket runs of another level
\* included, is the payload byte for byte (bodies without newlines).
C27_LongStringEnd ==
    (/\ LexCalled
     /\ OpenLevel(tok_start) >= 0
     /\ FirstClose(BodyStart(tok_start), OpenLevel(tok_start)) >= 0)
    => LET k == OpenLevel(tok_start)
           e == FirstClose(BodyStart(tok_start), k)
       IN  /\ result.kind = "Next" /\ result.tok = "String"
           /\ pos = e + k + 2
           /\ ~HasNewline(Bytes(BodyStart(tok_start), e))
                 => result.payload = Bytes(BodyStart(tok_start), e)

C27_Witness ==
    /\ result.kind = "Next" /\ result.tok = "String"
    /\ stream = <<LEFT_BRACKET, EQUALS, LEFT_BRACKET,
                  RIGHT_BRACKET, RIGHT_BRACKET, EQUALS, RIGHT_BRACKET>>
    /\ result.payload = <<RIGHT_BRACKET>>
    /\ pos = 7

\* C28: every newline sequence in the body of a long string is one `\n` in
\* the payload (bodies that do not start with a newline).
C28_NewlinesNormalised ==
    (LongStringToken /\ LeadingNewline(TokenBody) = 0)
    => result.payload = Normalised(TokenBody)

\* C29: a newline sequence right after the opening of a long string is left
\* out of the payload and counts as a line (bodies with no other newline).
C29_LeadingNewlineElided ==
    (LongStringToken /\ LeadingNewline(TokenBody) > 0)
    => LET rest == SubSeq(TokenBody, LeadingNewline(TokenBody) + 1, Len(TokenBody))
       IN  /\ line_number >= result.line + 1
           /\ ~HasNewline(rest) => result.payload = rest

\* C30: a short string that no quote byte equal to its opening quote closes
\* before the end of its line, a long string and a long comment with no
\* closing of their level make next return an error, not End and not a
\* token; a short string ends at the first byte equal to its opening quote
\* (sources without backslashes).
C30_UnterminatedIsError ==
    /\ (/\ LexRan
        /\ At(tok_start) \in {DOUBLE_QUOTE, SINGLE_QUOTE}
        /\ \A i \in 1..Len(stream) : stream[i] # BACKSLASH)
       => LET closes == { i \in (tok_start + 1)..(LineEndFrom(tok_start + 1) - 1) :
                            At(i) = At(tok_start) }
          IN  IF closes = {} THEN result.kind = "Err"
              ELSE LET c == CHOOSE i \in closes : \A j \in closes : i <= j
                   IN  /\ result.kind = "Next" /\ result.tok = "String"
                       /\ pos = c + 1
                       /\ result.payload = Bytes(tok_start + 1, c)
    /\ (/\ LexCalled
        /\ OpenLevel(tok_start) >= 0
        /\ FirstClose(BodyStart(tok_start), OpenLevel(tok_start)) < 0)
       => result.kind = "Err"
    /\ (/\ LexCalled
        /\ At(call_pos) = MINUS /\ At(call_pos + 1) = MINUS
        /\ OpenLevel(call_pos + 2) >= 0
        /\ FirstClose(BodyStart(call_pos + 2), OpenLevel(call_pos + 2)) < 0)
       => result.kind = "Err"

C30_Witness ==
    /\ result.kind = "Err"
    /\ stream = <<DOUBLE_QUOTE, LOWER_A, SINGLE_QUOTE>>
    /\ result.msg = "unfinished short string"

(***************************************************************************)
(* Vocabulary of the properties of escapes in short strings.               *)
(***************************************************************************)
Whitespace ==
    {SPACE, HORIZONTAL_TAB, VERTICAL_TAB, FORM_FEED, NEWLINE, CARRIAGE_RETURN}

\* The offset of the first byte q at or after p, -1 when there is none.
FirstByte(q, p) ==
    IF \E i \in p..(Len(stream) - 1) : At(i) = q
    THEN CHOOSE i \in p..(Len(stream) - 1) :
            At(i) = q /\ \A j \in p..(i - 1) : At(j) # q
    ELSE -1

\* What a string body whose only escape is `\z` stands for: the bytes
\* outside the whitespace runs that follow a `\z`; a newline byte outside
\* such a run is marked NoByte.
RECURSIVE ZPayload(_, _)
ZPayload(seq, in_run) ==
    IF seq = <<>> THEN <<>>
    ELSE IF Len(seq) >= 2 /\ seq[1] = BACKSLASH /\ seq[2] = LOWER_Z
    THEN ZPayload(SubSeq(seq, 3, Len(seq)), TRUE)
    ELSE IF in_run /\ seq[1] \in Whitespace
    THEN ZPayload(Tail(seq), TRUE)
    ELSE IF seq[1] \in {NEWLINE, CARRIAGE_RETURN}
    THEN <<NoByte>> \o ZPayload(Tail(seq), FALSE)
    ELSE <<seq[1]>> \o ZPayload(Tail(seq), FALSE)

\* The last call lexed a short string that starts at tok_start.
ShortStringCall == LexRan /\ At(tok_start) = DOUBLE_QUOTE

\* C31: in a short string, `\z` consumes the whole run of whitespace bytes
\* that follows it and adds none of them to the payload, every newline
\* sequence of the run counting as one line; the string goes on with the
\* first byte that is not whitespace (strings whose only escape is `\z`).
C31_SkipWhitespaceEscape ==
    (/\ ShortStringCall
     /\ \A i \in 0..(Len(stream) - 1) : At(i) = BACKSLASH => At(i + 1) = LOWER_Z
     /\ FirstByte(DOUBLE_QUOTE, tok_start + 1) >= 0)
    => LET close == FirstByte(DOUBLE_QUOTE, tok_start + 1)
           body  == ZPayload(Bytes(tok_start + 1, close), FALSE)
       IN  IF \E i \in 1..Len(body) : body[i] = NoByte
           THEN result.kind = "Err"
           ELSE /\ result.kind = "Next" /\ result.tok = "String"
                /\ result.payload = body
                /\ pos = close + 1
                /\ line_number = result.line
                      + newline_sequences(stream, tok_start, close)

C31_Witness ==
    /\ result.kind = "Next" /\ result.tok = "String"
    /\ stream = <<DOUBLE_QUOTE, LOWER_A, BACKSLASH, LOWER_Z, NEWLINE, SPACE,
                  LOWER_A, DOUBLE_QUOTE>>
    /\ result.payload = <<LOWER_A, LOWER_A>>
    /\ result.line = 0 /\ line_number = 1

\* The number of decimal digits from offset p on, at most n.
RECURSIVE DigitRun(_, _)
DigitRun(p, n) ==
    IF n > 0 /\ At(p) >= NUM_0 /\ At(p) <= NUM_9 THEN 1 + DigitRun(p + 1, n - 1)
    ELSE 0

\* The value of the k decimal digits that end before offset p.
RECURSIVE DecimalOf(_, _)
DecimalOf(p, k) ==
    IF k = 0 THEN 0 ELSE 10 * DecimalOf(p - 1, k - 1) + (At(p - 1) - NUM_0)

\* C32: a decimal escape takes one to three decimal digits; it stands for
\* the one byte of their value when that is at most 255 and fails with
\* "decimal escape too large" otherwise; a fourth digit is a payload byte
\* (strings that start with their only escape).
C32_DecimalEscape ==
    (/\ ShortStringCall
     /\ At(tok_start + 1) = BACKSLASH
     /\ DigitRun(tok_start + 2, 3) >= 1
     /\ \A i \in (tok_start + 2)..(Len(stream) - 1) : At(i) # BACKSLASH
     /\ FirstByte(DOUBLE_QUOTE, tok_start + 2) >= 0)
    => LET k     == DigitRun(tok_start + 2, 3)
           v     == DecimalOf(tok_start + 2 + k, k)
           close == FirstByte(DOUBLE_QUOTE, tok_start + 2)
       IN  IF v > 255
           THEN result.kind = "Err" /\ result.msg = "decimal escape too large"
           ELSE /\ result.kind = "Next" /\ result.tok = "String"
                /\ result.payload = <<v>> \o Bytes(tok_start + 2 + k, close)
                /\ pos = close + 1

C32_Witness ==
    /\ result.kind = "Next" /\ result.tok = "String"
    /\ stream = <<DOUBLE_QUOTE, BACKSLASH, NUM_0 + 2, NUM_0 + 5, NUM_0 + 5,
                  NUM_0 + 5, DOUBLE_QUOTE>>
    /\ result.payload = <<255, NUM_0 + 5>>

\* The hex digits of `\u{...}` without their leading zeros.
RECURSIVE Significant(_)
Significant(digits) ==
    IF digits # <<>> /\ digits[1] = NUM_0 THEN Significant(Tail(digits))
    ELSE digits

\* The value of a string of hex digits.
RECURSIVE HexValue(_)
HexValue(digits) ==
    IF digits = <<>> THEN 0
    ELSE 16 * HexValue(SubSeq(digits, 1, Len(digits) - 1))
           + from_hex_digit(digits[Len(digits)])

\* The digits stand for a Unicode scalar value: at most 0x10FFFF, which has
\* six significant digits, and no surrogate (0xD800..0xDFFF).
ScalarDigits(digits) ==
    /\ Len(Significant(digits)) <= 6
    /\ HexValue(Significant(digits)) <= 1114111
    /\ ~(HexValue(Significant(digits)) >= 55296
         /\ HexValue(Significant(digits)) <= 57343)

\* C33: a `\u{...}` escape succeeds only when the value of its hex digits,
\* however many they are, is a Unicode scalar value.
C33_UnicodeScalarOnly ==
    (/\ ShortStringCall
     /\ At(tok_start + 1) = BACKSLASH /\ At(tok_start + 2) = LOWER_U
     /\ At(tok_start + 3) = LEFT_BRACE
     /\ FirstByte(RIGHT_BRACE, tok_start + 4) >= 0
     /\ \A i \in (tok_start + 4)..(FirstByte(RIGHT_BRACE, tok_start + 4) - 1) :
           from_hex_digit(At(i)) # NoByte
     /\ result.kind = "Next")
    => ScalarDigits(Bytes(tok_start + 4, FirstByte(RIGHT_BRACE, tok_start + 4)))

\* C36: next returns End only when no byte of the input remains: lex never
\* starts at a whitespace byte, a newline byte or a `--`, so whitespace and
\* comments before a token or before the end of the input are skipped
\* without ending the token sequence.
C36_EndOnlyAtEnd ==
    /\ result.kind = "End" => (pos = Len(stream) /\ tok_start = Len(stream))
    /\ LexRan =>
          /\ At(tok_start) \notin Whitespace
          /\ ~(At(tok_start) = MINUS /\ At(tok_start + 1) = MINUS)

\* The name on the line after a trailing comment is returned as a token.
C36_Witness ==
    /\ result.kind = "Next" /\ result.tok = "Name"
    /\ Len(stream) >= 8
    /\ Bytes(Len(stream) - 6, Len(stream))
          = <<SPACE, MINUS, MINUS, LOWER_A, NEWLINE, LOWER_A>>
    /\ tok_start = Len(stream) - 1
    /\ call_pos = Len(stream) - 6

\* C37: the payload of a Name or String token is made of that token's own
\* bytes: a name's payload is its bytes, a string's payload the bytes
\* between its delimiters (strings without escapes or newlines), and no
\* payload is longer than its token; nothing an earlier call left in the
\* buffer is part of it.
C37_PayloadOfOwnToken ==
    /\ (result.kind = "Next" /\ result.tok = "Name")
          => result.payload = Bytes(tok_start, pos)
    /\ (/\ result.kind = "Next" /\ result.tok = "String"
        /\ At(tok_start) \in {DOUBLE_QUOTE, SINGLE_QUOTE}
        /\ \A i \in tok_start..(pos - 1) : At(i) # BACKSLASH)
          => result.payload = Bytes(tok_start + 1, pos - 1)
    /\ (LongStringToken /\ ~HasNewline(TokenBody))
          => result.payload = TokenBody
    /\ (result.kind = "Next" /\ result.tok = "String")
          => Len(result.payload) <= pos - tok_start

\* A name right after a string: its payload is the name alone.
C37_Witness ==
    /\ result.kind = "Next" /\ result.tok = "Name"
    /\ stream = <<DOUBLE_QUOTE, LOWER_A, DOUBLE_QUOTE, LOWER_A>>
    /\ tok_start = 3
    /\ result.payload = <<LOWER_A>>

(***************************************************************************)
(* Failure of a fallible opcode.                                           *)
(***************************************************************************)
\* The tag of every opcode that reads or writes a table, computes, orders
\* or steps a numeric loop.
Fallible ==
    {"GetTable", "SetTable", "GetUpTable", "SetUpTable", "Minus", "BitNot",
     "NumericForPrep", "NumericForLoop"}
    \cup BinaryOperators
    \cup {"LessRR", "LessRC", "LessCR", "LessCC",
          "LessEqRR", "LessEqRC", "LessEqCR", "LessEqCC"}

\* C35: when a table-access, arithmetic, bitwise, unary, ordering-comparison,
\* NumericForPrep or NumericForLoop opcode fails, run_vm returns the error
\* with no register modified and pc directly after the failing opcode.
C35_FailureLeavesFrame ==
    (Called /\ Executed = 1 /\ TheOp.op \in Fallible /\ ret.kind = "Err")
    => /\ ret.e # "none"
       /\ frame.stack_frame = before.stack_frame
       /\ FellThrough

\* A GetTable of a register that holds no table has failed.
C35_Witness ==
    /\ Stepped("GetTable")
    /\ ret.kind = "Err"
    /\ R(before, TheOp.table).t # "table"
    /\ R(before, TheOp.dest) # Nil
    /\ R(frame, TheOp.dest) = R(before, TheOp.dest)

(***************************************************************************)
====
